---- MODULE Spec2Model ----
(***************************************************************************)
(* Fleet-telemetry overlay: the overlay pool of ParticlesOptimized, its    *)
(* performance governor (checkPerformance), reconciliation                 *)
(* (updateDisplayMetrics) and the per-frame update, and the fleet           *)
(* simulation of FleetTelematicsData that feeds it (simulation ticks and   *)
(* the metric projection getDisplayMetrics).                               *)
(*                                                                         *)
(* Pool members are numbered 1..poolSize (createObjectPool's index + 1).   *)
(* Fixed-point conventions:                                                *)
(*   life      in units of 0.005 (one updateNonCritical increment)         *)
(*   z         projected depth in hundredths                               *)
(*   sine      Math.sin scaled by 10^4                                     *)
(*   alpha     finalAlpha scaled by 10^7 (sine * hundredths * 9)           *)
(***************************************************************************)
EXTENDS Integers, Sequences, FiniteSets, TLC

VARIABLES
    navigator,        \* [isMobile, hardwareConcurrency] of the host
    hasIdleCallback,  \* window.requestIdleCallback exists
    textCount,        \* settings.textCount (the governor's target)
    textElementPool,  \* this.textElementPool, sequence of member ids
    activeElements,   \* this.activeElements
    inactiveElements, \* this.inactiveElements
    isActive,         \* pooledObject.isActive, per member
    display,          \* element.style.display, per member
    isVisible,        \* mesh.userData.isVisible, per member
    opacity,          \* element.style.opacity (scaled), per member
    life,             \* mesh.userData.life (units of 0.005), per member
    content,          \* metric index last written to element.innerHTML (0: initial text)
    attached,         \* element and mesh still attached to their parents, per member
    vehicles,         \* fleetData.vehicles, the set of entity numbers
    currentMetrics,   \* this.currentMetrics.length
    frameCount,       \* this.frameCount
    currentFPS,       \* this.currentFPS
    camera,           \* this.camera (FALSE: not set)
    idleQueue,        \* number of requestIdleCallback callbacks not yet run
    elapsed,          \* frames rendered so far (gl.time.elapsed in frames)
    hung,             \* the release loop of updateDisplayMetrics made no progress
    lastOp,           \* the operation that produced this state
    lastArg,          \* its argument (member id, target vehicle), 0 if none; for update()
                      \* the view the frame projected through, "" if it returned before
    lastRet,          \* its return value (member id), 0 for null / none; for a theme
                      \* notification 1 if the colors were applied to the scene
    direct,           \* direct getActiveObject / releaseObject calls made so far
    checks,           \* governor windows (checkPerformance calls) so far
    lowRun,           \* consecutive windows, up to now, that measured less than 30 FPS
    runStart,         \* settings.textCount when that run of low windows began
    fleet,            \* fleetData.vehicles: the vehicle record stored under each id
    isRunning,        \* fleetData.isRunning: the simulation interval timer is set
    ticks,            \* simulation ticks (updateVehicleData calls) so far
    visited,          \* the ids the last tick's forEach visited, in visiting order
    liveTimers,       \* simulation interval timers set and not cleared
    simulationInterval, \* fleetData.simulationInterval holds a timer handle
    listeners,        \* fleetData.listeners, in insertion order (the order forEach visits)
    notified,         \* how often the last tick called each listener
    caught,           \* listener exceptions the last tick caught and logged
    metricList,       \* this.currentMetrics, the list itself (currentMetrics is its length)
    colors,           \* ThemeUpdater.colors: the 3D color group in force
    appliedColors,    \* the color group last applied to the scene by updateSceneColors
    applies,          \* applications of colors to the scene since construction
    thrown,           \* an exception has propagated out of a theme notification
    rootColors,       \* the --fleet-particle-* custom properties on the document root
    elementColor,     \* each member's element.style color: "var" while it still reads the
                      \* custom properties, else the color group written directly
    errors,           \* ErrorBoundary.errors: the records kept, oldest first
    notification,     \* the #error-notification element: "none" or the type it reports
    hideTimers,       \* pending 10 s auto-hide timeouts of the notification
    textCountFrac,    \* the fraction of settings.textCount, in units of 1 / FractionDen
                      \* (textCount is its integer part)
    optimizes,        \* PerformanceMonitor.optimizePerformance calls so far
    loadedModules,    \* LazyLoader.loadedModules: the names that have a module class
    loadingPromises,  \* LazyLoader.loadingPromises: the promise stored under each name, 0 if none
    promises,         \* the dynamic imports started so far: name and state of each promise
    loads             \* the loadModule calls made so far: name, promise awaited, role, result

envVars   == <<navigator, hasIdleCallback>>
poolVars  == <<textElementPool, activeElements, inactiveElements, isActive>>
styleVars == <<display, isVisible, opacity>>
clockVars == <<liveTimers, simulationInterval>>
listenerVars == <<listeners, notified, caught>>
fleetVars == <<vehicles, fleet, isRunning, ticks, visited, clockVars, listenerVars>>
govVars   == <<textCount, frameCount, currentFPS>>
frameVars == <<camera, idleQueue, life>>
countVars == <<elapsed, direct, checks>>
callVars  == <<lastOp, lastArg, lastRet>>
runVars   == <<lowRun, runStart>>
themeVars == <<colors, appliedColors, applies, thrown, rootColors, elementColor>>
errorVars == <<errors, notification, hideTimers>>
monitorVars == <<textCountFrac, optimizes>>
loaderVars == <<loadedModules, loadingPromises, promises, loads>>
utilVars  == <<errorVars, monitorVars, loaderVars>>

vars == <<envVars, poolVars, styleVars, fleetVars, govVars, frameVars, countVars,
          callVars, runVars, themeVars, utilVars, content, attached, currentMetrics, metricList, hung>>

----------------------------------------------------------------------------
(* Program constants *)

poolSize == 32
MinTextCount == 8
MobileTextCount == 12
LowEndTextCount == 16
DesktopTextCount == 24
LowFPS == 30
HighFPS == 50
DecreaseStep == 2
IncreaseStep == 1
FleetSize == 12
LifeUnits == 200
AlphaThreshold == 1000000
MinSpeed == 100
MaxSpeed == 1000
MaxFaultCodes == 3
MinScore == 5000
MaxScore == 10000
MinDrivingTemperature == 800
MaxDrivingTemperature == 1050
IdleTemperature == 850
IdleCooling == 5
IdleRpm == 8000

(* Bounds of the model *)

MaxElapsed == 1
MaxDirect == 2
MaxChecks == 3
MaxErrors == 2
MaxLoads == 3
MaxOptimize == 1
MaxThemes == 2
MaxTicks == 2

Members == 1..poolSize

Min(a, b) == IF a < b THEN a ELSE b
Max(a, b) == IF a > b THEN a ELSE b

\* elapsed times (ms) between two checkPerformance calls
DeltaTimes == {10, 20, 33, 100}

\* targets and metric counts a reconciliation may meet: none, fewer than the
\* pool, the pool, more than the pool; no metric, one, the 49 of the fleet
ReconcileTargets == {0, 1, MinTextCount, DesktopTextCount, poolSize, poolSize + 1}
MetricCounts == {0, 1, 4 * FleetSize + 1}

\* callbacks a client may register with the fleet; one of them throws
ListenerIds == {"first", "thrower", "last"}
ThrowingListeners == {"thrower"}

\* module names asked of the loader: one of the module map, one that is not in it
ModuleNames == {"menu", "missing"}

\* frame rates the performance monitor may have measured: poor, good
MonitorFPS == {20, 60}

\* members a caller holds a handle to and may release directly
ReleaseArgs == {1, 2, poolSize}

\* hosts: a mobile device, a low-end desktop, a desktop
Navigators == {[isMobile |-> TRUE,  hardwareConcurrency |-> 8],
               [isMobile |-> FALSE, hardwareConcurrency |-> 4],
               [isMobile |-> FALSE, hardwareConcurrency |-> 8]}

\* starting life patterns (Math.random() per member)
LifeSeeds == {0}

----------------------------------------------------------------------------
(* Pure helpers *)

\* the denominator that keeps settings.textCount exact over MaxOptimize
\* multiplications by 0.8
FractionDen == 5 ^ MaxOptimize

\* getOptimalTextCount
getOptimalTextCount(nav) ==
    IF nav.isMobile THEN MobileTextCount
    ELSE IF nav.hardwareConcurrency <= 4 THEN LowEndTextCount
    ELSE DesktopTextCount

\* Math.round(1000 * frames / deltaTime), deltaTime > 0
MeasuredFPS(frames, deltaTime) == (2000 * frames + deltaTime) \div (2 * deltaTime)

\* FleetTelematicsData.getDisplayMetrics().length: four metrics per vehicle and one fleet summary
DisplayMetricsLength(vs) == 4 * Cardinality(vs) + 1

\* Array.prototype.indexOf on a sequence of member ids (0: absent)
IndexOf(s, x) ==
    IF \E i \in 1..Len(s) : s[i] = x
    THEN CHOOSE i \in 1..Len(s) : s[i] = x /\ \A j \in 1..(i - 1) : s[j] # x
    ELSE 0

\* Array.prototype.splice(i, 1)
RemoveAt(s, i) == [j \in 1..(Len(s) - 1) |-> IF j < i THEN s[j] ELSE s[j + 1]]

\* The pool part of the state as one record, so that loops can be folded over it
PoolState == [active |-> activeElements, inactive |-> inactiveElements,
              isActive |-> isActive, display |-> display, isVisible |-> isVisible,
              ret |-> 0, hung |-> FALSE]

\* getActiveObject without "obj.isActive = true"
GetActiveObj_NoFlag(p) ==
    IF Len(p.inactive) > 0
    THEN LET obj == p.inactive[Len(p.inactive)]
         IN [p EXCEPT !.inactive = SubSeq(p.inactive, 1, Len(p.inactive) - 1),
                      !.active = Append(p.active, obj),
                      !.ret = obj]
    ELSE [p EXCEPT !.ret = 0]

\* getActiveObject
GetActiveObj(p) ==
    IF Len(p.inactive) > 0
    THEN LET obj == p.inactive[Len(p.inactive)]
         IN [p EXCEPT !.inactive = SubSeq(p.inactive, 1, Len(p.inactive) - 1),
                      !.isActive[obj] = TRUE,
                      !.active = Append(p.active, obj),
                      !.ret = obj]
    ELSE [p EXCEPT !.ret = 0]

\* releaseObject without the early return and without the indexOf test
ReleaseObj_NoGuard(p, obj) ==
    LET activeIndex == IndexOf(p.active, obj)
        q == [p EXCEPT !.isActive[obj] = FALSE,
                       !.display[obj] = "none",
                       !.isVisible[obj] = FALSE]
    IN [q EXCEPT !.active = IF activeIndex > 0 THEN RemoveAt(p.active, activeIndex)
                            ELSE p.active,
                 !.inactive = Append(p.inactive, obj)]

\* releaseObject that forgets to push the object back on inactiveElements
ReleaseObj_NoPush(p, obj) ==
    IF ~p.isActive[obj] THEN p
    ELSE LET activeIndex == IndexOf(p.active, obj)
             q == [p EXCEPT !.isActive[obj] = FALSE,
                            !.display[obj] = "none",
                            !.isVisible[obj] = FALSE]
         IN IF activeIndex > 0
            THEN [q EXCEPT !.active = RemoveAt(p.active, activeIndex)]
            ELSE q

\* a releaseObject that clears the flags but leaves the lists alone
ReleaseObj_FlagsOnly(p, obj) ==
    IF ~p.isActive[obj] THEN p
    ELSE [p EXCEPT !.isActive[obj] = FALSE,
                   !.display[obj] = "none",
                   !.isVisible[obj] = FALSE]

\* releaseObject
ReleaseObj(p, obj) ==
    IF ~p.isActive[obj] THEN p
    ELSE LET activeIndex == IndexOf(p.active, obj)
             q == [p EXCEPT !.isActive[obj] = FALSE,
                            !.display[obj] = "none",
                            !.isVisible[obj] = FALSE]
         IN IF activeIndex > 0
            THEN [q EXCEPT !.active = RemoveAt(p.active, activeIndex),
                           !.inactive = Append(p.inactive, obj)]
            ELSE q

\* the release loop with ">=" shifted by one: "length > textCount + 1"
RECURSIVE ReleaseExcess_OffByOne(_, _)
ReleaseExcess_OffByOne(p, tc) ==
    IF Len(p.active) > tc + 1
    THEN LET obj == p.active[Len(p.active)]
             q == ReleaseObj(p, obj)
         IN IF Len(q.active) = Len(p.active)
            THEN [q EXCEPT !.hung = TRUE]
            ELSE ReleaseExcess_OffByOne(q, tc)
    ELSE p

\* updateDisplayMetrics: the "release excess objects" loop
RECURSIVE ReleaseExcess(_, _)
ReleaseExcess(p, tc) ==
    IF Len(p.active) > tc
    THEN LET obj == p.active[Len(p.active)]
             q == ReleaseObj(p, obj)
         IN IF Len(q.active) = Len(p.active)
            THEN [q EXCEPT !.hung = TRUE]
            ELSE ReleaseExcess(q, tc)
    ELSE p

\* the activation loop stopping one object short
RECURSIVE ActivateNeeded_Short(_, _, _)
ActivateNeeded_Short(p, tc, m) ==
    IF Len(p.active) < Min(tc, m) - 1
    THEN LET q == GetActiveObj(p)
         IN IF q.ret = 0 THEN q
            ELSE ActivateNeeded_Short([q EXCEPT !.display[q.ret] = "block",
                                                !.isVisible[q.ret] = TRUE], tc, m)
    ELSE p

\* updateDisplayMetrics: the "activate needed objects" loop
RECURSIVE ActivateNeeded(_, _, _)
ActivateNeeded(p, tc, m) ==
    IF Len(p.active) < Min(tc, m)
    THEN LET q == GetActiveObj(p)
         IN IF q.ret = 0 THEN q
            ELSE ActivateNeeded([q EXCEPT !.display[q.ret] = "block",
                                          !.isVisible[q.ret] = TRUE], tc, m)
    ELSE p

\* updateDisplayMetrics / updateTextContent: content written to the active objects
WriteContent(c, active, m) ==
    [i \in Members |->
        LET index == IndexOf(active, i)
        IN IF index > 0 /\ index <= m THEN index ELSE c[i]]

----------------------------------------------------------------------------
(* The fleet simulation (FleetTelematicsData)                               *)
(* Fixed-point conventions:                                                 *)
(*   speed        tenths of km/h                                            *)
(*   efficiency   tenths of km/L                                            *)
(*   level        microlitres; capacity in litres                           *)
(*   consumption  millilitres per hour                                      *)
(*   drivingTime, idleTime   sixtieths of a minute (one tick adds one)      *)
(*   score        hundredths                                                *)
(*   temperature  tenths of a degree                                        *)
(*   rpm          tenths of a revolution per minute                         *)
(* lat, lng, heading, altitude, oilPressure, voltage,                       *)
(* nextMaintenance, route and driver id are left out: no operation reads    *)
(* them to compute a field kept here.                                       *)

\* vehicleTypes: fuel (capacity, litres) and efficiency (tenths)
vehicleTypes == <<[type |-> "Truck", fuel |-> 200, efficiency |-> 85],
                  [type |-> "Van",   fuel |-> 80,  efficiency |-> 120],
                  [type |-> "Car",   fuel |-> 60,  efficiency |-> 150],
                  [type |-> "Bus",   fuel |-> 300, efficiency |-> 60]>>

\* the catalog of updateEngineData
faultCodes == <<"P0171", "P0300", "P0420", "P0128", "P0442">>

\* `VH-${String(i + 1).padStart(3, '0')}` for loop index i = 0..11
vehicleIds == <<"VH-001", "VH-002", "VH-003", "VH-004", "VH-005", "VH-006",
                "VH-007", "VH-008", "VH-009", "VH-010", "VH-011", "VH-012">>

\* initializeFleet: the vehicle created by loop index i - 1; the Math.random()
\* draws are spread over their ranges by the index
initialVehicle(i) ==
    LET vehicleType == vehicleTypes[((i - 1) % Len(vehicleTypes)) + 1]
    IN [id |-> vehicleIds[i],
        type |-> vehicleType.type,
        speed |-> 200 + ((i * 137) % 800),
        level |-> vehicleType.fuel * 10000 * (30 + ((i * 7) % 60)),
        capacity |-> vehicleType.fuel,
        efficiency |-> vehicleType.efficiency,
        consumption |-> 0,
        temperature |-> 850 + ((i * 145 + 10 * (i - 1) * (i - 2)) % 150),
        rpm |-> 15000 + ((i * 3890) % 20000),
        faultCodes |-> <<>>,
        score |-> 7500 + ((i * 211) % 2000),
        harshAcceleration |-> i % 5,
        harshBraking |-> (i + 1) % 3,
        harshCornering |-> (i + 1) % 2,
        idleTime |-> 60 * ((i * 17) % 120),
        drivingTime |-> 60 * (60 + ((i * 53 + 270) % 480)),
        state |-> IF i % 5 = 2 THEN "idle" ELSE "driving",
        lastUpdate |-> 0,
        connected |-> (i # 9)]

\* one vehicle's Math.random() draws of one tick:
\*   speedDelta      (Math.random() - 0.5) * 5, in tenths
\*   fault           the catalog entry drawn when Math.random() < 0.001, "" otherwise
\*   harsh           the event recorded when Math.random() < 0.01, "none" otherwise
\*   toggleState     Math.random() < 0.01 in updateVehicleStatus
\*   toggleConnected Math.random() < 0.001 in updateVehicleStatus
\*   tempDelta       (Math.random() - 0.5) * 2, in tenths
\*   rpmRand         (Math.random() - 0.5) * 100, in tenths
QuietDraw == [speedDelta |-> 0, tempDelta |-> 0, rpmRand |-> 0, fault |-> "", harsh |-> "none",
              toggleState |-> FALSE, toggleConnected |-> FALSE]

\* the draws a tick may give the one vehicle it singles out
TickDraws == {QuietDraw,
              [QuietDraw EXCEPT !.speedDelta = 25],
              [QuietDraw EXCEPT !.speedDelta = -25],
              [QuietDraw EXCEPT !.harsh = "acceleration"],
              [QuietDraw EXCEPT !.harsh = "braking"],
              [QuietDraw EXCEPT !.harsh = "cornering"],
              [QuietDraw EXCEPT !.toggleState = TRUE],
              [QuietDraw EXCEPT !.toggleConnected = TRUE]}

FaultDraws == {QuietDraw} \cup
              {[QuietDraw EXCEPT !.fault = faultCodes[c]] : c \in {1, 2, 3, 5}}

\* the draws that move a metric's status: temperature, connectivity, run state
MetricDraws == {QuietDraw,
                [QuietDraw EXCEPT !.tempDelta = 10],
                [QuietDraw EXCEPT !.tempDelta = -10],
                [QuietDraw EXCEPT !.toggleState = TRUE],
                [QuietDraw EXCEPT !.toggleConnected = TRUE]}

\* the draws that move the engine readings, alone and together with a change
\* of run state
EngineDraws == {QuietDraw,
                [QuietDraw EXCEPT !.tempDelta = 10],
                [QuietDraw EXCEPT !.tempDelta = -10],
                [QuietDraw EXCEPT !.rpmRand = -500],
                [QuietDraw EXCEPT !.rpmRand = 499],
                [QuietDraw EXCEPT !.toggleState = TRUE],
                [QuietDraw EXCEPT !.tempDelta = -10, !.toggleState = TRUE]}

\* the vehicles an engine tick may single out: one that starts idle, one that
\* starts driving with a temperature close to 85
EngineTargets == {2, 3}

\* the draws of a tick whose vehicles matter less than its clock
ClockDraws == {QuietDraw, [QuietDraw EXCEPT !.speedDelta = 25]}

\* the vehicles a tick may single out: one that starts driving, one that starts idle
TickTargets == {1, 2}

\* the draws of one tick for the whole fleet
DrawsFor(target, d) == [v \in 1..FleetSize |-> IF v = target THEN d ELSE QuietDraw]

\* updateVehicleLocation
updateVehicleLocation(vehicle, d) ==
    IF vehicle.state = "driving"
    THEN [vehicle EXCEPT !.speed = Max(MinSpeed, Min(MaxSpeed, vehicle.speed + d.speedDelta))]
    ELSE vehicle

\* fuel used by one tick, in microlitres: speed / efficiency / 3600 litres
fuelUsed(vehicle) == (vehicle.speed * 2500) \div (vehicle.efficiency * 9)

\* updateFuelData without the test of status.state: an idle vehicle burns fuel too
updateFuelData_AlwaysBurns(vehicle) ==
    [vehicle EXCEPT !.level = Max(0, vehicle.level - fuelUsed(vehicle)),
                    !.consumption = (vehicle.speed * 1000) \div vehicle.efficiency]

\* updateFuelData without Math.max(0, ...)
updateFuelData_NoFloor(vehicle) ==
    IF vehicle.state = "driving"
    THEN [vehicle EXCEPT !.level = vehicle.level - fuelUsed(vehicle),
                         !.consumption = (vehicle.speed * 1000) \div vehicle.efficiency]
    ELSE [vehicle EXCEPT !.consumption = 0]

\* updateFuelData
updateFuelData(vehicle) ==
    IF vehicle.state = "driving"
    THEN [vehicle EXCEPT !.level = Max(0, vehicle.level - fuelUsed(vehicle)),
                         !.consumption = (vehicle.speed * 1000) \div vehicle.efficiency]
    ELSE [vehicle EXCEPT !.consumption = 0]

\* Array.prototype.includes
Includes(s, x) == \E k \in 1..Len(s) : s[k] = x

\* updateEngineData: engine.temperature after the tick
engineTemperature(vehicle, d) ==
    IF vehicle.state = "driving"
    THEN Max(MinDrivingTemperature,
             Min(MaxDrivingTemperature, vehicle.temperature + d.tempDelta))
    ELSE Max(IdleTemperature, vehicle.temperature - IdleCooling)

\* updateEngineData: engine.rpm after the tick, from the speed the tick has
\* just written
engineRpm(vehicle, d) ==
    IF vehicle.state = "driving"
    THEN IdleRpm + 25 * vehicle.speed + 2 * d.rpmRand
    ELSE IdleRpm + d.rpmRand

\* updateEngineData without the "length < 3" test
updateEngineData_NoCap(vehicle, d) ==
    LET v1 == [vehicle EXCEPT !.rpm = engineRpm(vehicle, d),
                              !.temperature = engineTemperature(vehicle, d)]
    IN IF d.fault # "" /\ ~Includes(v1.faultCodes, d.fault)
       THEN [v1 EXCEPT !.faultCodes = Append(v1.faultCodes, d.fault)]
       ELSE v1

\* updateEngineData: temperature and fault codes
updateEngineData(vehicle, d) ==
    LET v1 == [vehicle EXCEPT !.rpm = engineRpm(vehicle, d),
                              !.temperature = engineTemperature(vehicle, d)]
    IN IF d.fault # "" /\ Len(v1.faultCodes) < MaxFaultCodes
                      /\ ~Includes(v1.faultCodes, d.fault)
       THEN [v1 EXCEPT !.faultCodes = Append(v1.faultCodes, d.fault)]
       ELSE v1

\* the score without Math.max(50, ...)
driverScore_NoFloor(vehicle) ==
    LET events == vehicle.harshAcceleration + vehicle.harshBraking + vehicle.harshCornering
    IN MaxScore - (events * 3600000) \div vehicle.drivingTime

\* updateDriverBehavior: the recalculated score
driverScore(vehicle) ==
    LET events == vehicle.harshAcceleration + vehicle.harshBraking + vehicle.harshCornering
        eventsPerHourTimes1000 ==
            IF vehicle.drivingTime > 0
            THEN (events * 3600000) \div vehicle.drivingTime
            ELSE 0
    IN Max(MinScore, MaxScore - eventsPerHourTimes1000)

\* updateDriverBehavior
updateDriverBehavior(vehicle, d) ==
    LET v1 == IF vehicle.state = "driving"
              THEN [vehicle EXCEPT
                      !.harshAcceleration = @ + (IF d.harsh = "acceleration" THEN 1 ELSE 0),
                      !.harshBraking = @ + (IF d.harsh = "braking" THEN 1 ELSE 0),
                      !.harshCornering = @ + (IF d.harsh = "cornering" THEN 1 ELSE 0),
                      !.drivingTime = @ + 1]
              ELSE [vehicle EXCEPT !.idleTime = @ + 1]
    IN [v1 EXCEPT !.score = driverScore(v1)]

\* updateVehicleStatus
updateVehicleStatus(vehicle, d) ==
    [vehicle EXCEPT
        !.state = IF d.toggleState
                  THEN (IF vehicle.state = "driving" THEN "idle" ELSE "driving")
                  ELSE vehicle.state,
        !.connected = IF d.toggleConnected THEN ~vehicle.connected ELSE vehicle.connected]

\* the body of updateVehicleData's forEach, applied to one vehicle at time now
updateVehicle(vehicle, d, now) ==
    LET v1 == updateVehicleLocation(vehicle, d)
        v2 == updateFuelData(v1)
        v3 == updateEngineData(v2, d)
        v4 == updateDriverBehavior(v3, d)
        v5 == updateVehicleStatus(v4, d)
    IN [v5 EXCEPT !.lastUpdate = now]

\* a callback that takes the speed from the vehicle stored under the previous key
UpdateOne_ReadsNeighbour(f, v, draws, now) ==
    LET u == IF v = 1 THEN FleetSize ELSE v - 1
    IN [f EXCEPT ![v] = updateVehicle([f[v] EXCEPT !.speed = f[u].speed], draws[v], now)]

\* the forEach callback applied to the vehicle stored under key v
UpdateOne(f, v, draws, now) == [f EXCEPT ![v] = updateVehicle(f[v], draws[v], now)]

\* Map.prototype.forEach over the keys in order, from position k on;
\* t is [fleet, visited]
RECURSIVE ForEachVehicle(_, _, _, _, _)
ForEachVehicle(t, order, k, draws, now) ==
    IF k > Len(order) THEN t
    ELSE ForEachVehicle([fleet |-> UpdateOne(t.fleet, order[k], draws, now),
                         visited |-> Append(t.visited, order[k])],
                        order, k + 1, draws, now)

\* an iteration that walks the keys from the last inserted to the first
PopulationOrder_Reversed(vs) ==
    SelectSeq([i \in 1..FleetSize |-> FleetSize + 1 - i], LAMBDA i : i \in vs)

\* the iteration order of the vehicles Map: insertion order, which is the loop
\* order of initializeFleet
PopulationOrder(vs) == SelectSeq([i \in 1..FleetSize |-> i], LAMBDA i : i \in vs)

\* updateVehicleData
updateVehicleData(f, vs, draws, now) ==
    ForEachVehicle([fleet |-> f, visited |-> <<>>], PopulationOrder(vs), 1, draws, now)

\* getDisplayMetrics pushing the driver metric before the engine metric
vehicleMetrics_DriverFirst(vehicle) ==
    <<[type |-> "location", vehicleId |-> vehicle.id, priority |-> "normal"],
      [type |-> "fuel", vehicleId |-> vehicle.id, priority |-> "normal"],
      [type |-> "driver", vehicleId |-> vehicle.id, priority |-> "normal"],
      [type |-> "engine", vehicleId |-> vehicle.id, priority |-> "normal"]>>

\* getDisplayMetrics with the fuel thresholds taken inclusively (<= 20, <= 40)
vehicleMetrics_LooseFuel(vehicle) ==
    <<[type |-> "location", vehicleId |-> vehicle.id, status |-> vehicle.state,
       priority |-> "normal"],
      [type |-> "fuel", vehicleId |-> vehicle.id,
       status |-> IF vehicle.level <= 20 * vehicle.capacity * 10000 THEN "critical"
                  ELSE IF vehicle.level <= 40 * vehicle.capacity * 10000 THEN "warning"
                  ELSE "normal",
       priority |-> "normal"],
      [type |-> "engine", vehicleId |-> vehicle.id,
       status |-> IF vehicle.temperature > 1000 THEN "warning" ELSE "normal",
       priority |-> "normal"],
      [type |-> "driver", vehicleId |-> vehicle.id,
       status |-> IF vehicle.score < 7000 THEN "warning" ELSE "normal",
       priority |-> "normal"]>>

\* getDisplayMetrics: the four metrics pushed for one vehicle
vehicleMetrics(vehicle) ==
    <<[type |-> "location", vehicleId |-> vehicle.id,
       status |-> vehicle.state,
       priority |-> IF vehicle.state = "driving" THEN "high" ELSE "normal"],
      [type |-> "fuel", vehicleId |-> vehicle.id,
       status |-> IF vehicle.level < 20 * vehicle.capacity * 10000 THEN "critical"
                  ELSE IF vehicle.level < 40 * vehicle.capacity * 10000 THEN "warning"
                  ELSE "normal",
       priority |-> IF vehicle.level < 20 * vehicle.capacity * 10000
                    THEN "critical" ELSE "normal"],
      [type |-> "engine", vehicleId |-> vehicle.id,
       status |-> IF vehicle.temperature > 1000 THEN "warning" ELSE "normal",
       priority |-> IF Len(vehicle.faultCodes) > 0 THEN "high" ELSE "normal"],
      [type |-> "driver", vehicleId |-> vehicle.id,
       status |-> IF vehicle.score < 7000 THEN "warning" ELSE "normal",
       priority |-> IF vehicle.score < 6000 THEN "high" ELSE "normal"]>>

\* getFleetSummary: the counts the fleet metric uses, over the vehicles in order
getFleetSummary(f, order) ==
    [total |-> Len(order),
     active |-> Cardinality({k \in 1..Len(order) : f[order[k]].state = "driving"}),
     connected |-> Cardinality({k \in 1..Len(order) : f[order[k]].connected})]

\* getDisplayMetrics: the metrics of the vehicles order[k..], then the fleet summary
RECURSIVE MetricsFrom(_, _, _)
MetricsFrom(f, order, k) ==
    IF k > Len(order)
    THEN LET summary == getFleetSummary(f, order)
         IN <<[type |-> "fleet", vehicleId |-> "FLEET",
               status |-> IF 10 * summary.connected < 9 * summary.total
                          THEN "warning" ELSE "normal",
               priority |-> "high"]>>
    ELSE vehicleMetrics(f[order[k]]) \o MetricsFrom(f, order, k + 1)

\* getDisplayMetrics
getDisplayMetrics(f, vs) == MetricsFrom(f, PopulationOrder(vs), 1)

\* createMeshForElement: userData.life = Math.random(), spread over [0, 1) by the index
initialLife(seed, i) == (seed + 37 * i) % LifeUnits

----------------------------------------------------------------------------
Init ==
    /\ navigator \in Navigators
    /\ hasIdleCallback \in BOOLEAN
    /\ textCount = getOptimalTextCount(navigator)
    /\ textElementPool = [i \in Members |-> i]
    /\ activeElements = <<>>
    /\ inactiveElements = [i \in Members |-> i]
    /\ isActive = [i \in Members |-> FALSE]
    /\ display = [i \in Members |-> "none"]
    /\ isVisible = [i \in Members |-> FALSE]
    /\ opacity = [i \in Members |-> 0]
    /\ \E seed \in LifeSeeds : life = [i \in Members |-> initialLife(seed, i)]
    /\ content = [i \in Members |-> 0]
    /\ attached = [i \in Members |-> TRUE]
    /\ vehicles = 1..FleetSize
    /\ fleet = [i \in 1..FleetSize |-> initialVehicle(i)]
    /\ isRunning = TRUE
    /\ liveTimers = 1
    /\ simulationInterval = TRUE
    /\ listeners = <<>>
    /\ notified = [l \in ListenerIds |-> 0]
    /\ caught = 0
    /\ ticks = 0
    /\ visited = <<>>
    /\ metricList = getDisplayMetrics(fleet, vehicles)
    /\ colors = "default"
    /\ appliedColors = "default"
    /\ applies = 0
    /\ thrown = FALSE
    /\ rootColors = "default"
    /\ elementColor = [i \in Members |-> "var"]
    /\ errors = <<>>
    /\ notification = "none"
    /\ hideTimers = 0
    /\ textCountFrac = 0
    /\ optimizes = 0
    /\ loadedModules = {}
    /\ loadingPromises = [name \in ModuleNames |-> 0]
    /\ promises = <<>>
    /\ loads = <<>>
    /\ currentMetrics = DisplayMetricsLength(vehicles)
    /\ frameCount = 0
    /\ currentFPS = 60
    /\ camera = FALSE
    /\ idleQueue = 0
    /\ elapsed = 0
    /\ hung = FALSE
    /\ lastOp = "init"
    /\ lastArg = 0
    /\ lastRet = 0
    /\ direct = 0
    /\ checks = 0
    /\ lowRun = 0
    /\ runStart = textCount

----------------------------------------------------------------------------
(* Frame update arithmetic *)

\* Math.sin(k * 0.005 * Math.PI) * 10^4 for k = 0..100
SinTable ==
    <<
      0, 157, 314, 471, 628, 785, 941, 1097, 1253, 1409,
      1564, 1719, 1874, 2028, 2181, 2334, 2487, 2639, 2790, 2940,
      3090, 3239, 3387, 3535, 3681, 3827, 3971, 4115, 4258, 4399,
      4540, 4679, 4818, 4955, 5090, 5225, 5358, 5490, 5621, 5750,
      5878, 6004, 6129, 6252, 6374, 6494, 6613, 6730, 6845, 6959,
      7071, 7181, 7290, 7396, 7501, 7604, 7705, 7804, 7902, 7997,
      8090, 8181, 8271, 8358, 8443, 8526, 8607, 8686, 8763, 8838,
      8910, 8980, 9048, 9114, 9178, 9239, 9298, 9354, 9409, 9461,
      9511, 9558, 9603, 9646, 9686, 9724, 9759, 9792, 9823, 9851,
      9877, 9900, 9921, 9940, 9956, 9969, 9980, 9989, 9995, 9999,
      10000
    >>

\* Math.sin(userData.life * Math.PI), scaled by 10^4
lifeAlpha(l) == IF l <= 100 THEN SinTable[l + 1] ELSE SinTable[LifeUnits - l + 1]

\* distance > 1 ? 0 : (1 - distance), in hundredths
distanceAlpha(z) == IF z > 100 THEN 0 ELSE 100 - z

\* lifeAlpha * distanceAlpha * 0.9, scaled by 10^7
finalAlpha(l, z) == lifeAlpha(l) * distanceAlpha(z) * 9

\* projected depth of a member's anchor under the camera position of this frame
ViewNames == {"front", "away", "mixed", "edge"}
ProjectedZ(view, i) ==
    CASE view = "front" -> 0
      [] view = "away"  -> 150
      [] view = "mixed" -> ((i % 5) - 2) * 75
      [] OTHER          -> IF i % 2 = 0 THEN 100 ELSE -100

\* a frame that walks textElementPool instead of activeElements
UpdatedByFrame_All(active, i) == TRUE

\* this.activeElements.forEach: the members a frame touches
UpdatedByFrame(active, i) == \E k \in 1..Len(active) : active[k] = i

\* updateNonCritical
updateNonCritical(l, active) ==
    [i \in Members |->
        IF UpdatedByFrame(active, i)
        THEN (IF l[i] + 1 >= LifeUnits THEN 0 ELSE l[i] + 1)
        ELSE l[i]]

\* a culling test that only looks at the far side (distance > 1)
Culled_FarOnly(view, i) == ProjectedZ(view, i) > 100

\* updateCritical: is the member culled this frame
Culled(view, i) == ProjectedZ(view, i) > 100 \/ ProjectedZ(view, i) < -100

\* a visibility rule that never hides a member once it is visible
VisibleAfter_Sticky(view, l, vis, i) ==
    IF Culled(view, i) THEN FALSE
    ELSE IF finalAlpha(l[i], ProjectedZ(view, i)) > AlphaThreshold /\ ~vis[i] THEN TRUE
    ELSE vis[i]

\* updateCritical: userData.isVisible after the frame
VisibleAfter(view, l, vis, i) ==
    IF Culled(view, i) THEN FALSE
    ELSE IF finalAlpha(l[i], ProjectedZ(view, i)) > AlphaThreshold /\ ~vis[i] THEN TRUE
    ELSE IF finalAlpha(l[i], ProjectedZ(view, i)) <= AlphaThreshold /\ vis[i] THEN FALSE
    ELSE vis[i]

\* updateCritical: element.style.display after the frame
DisplayAfter(view, l, vis, disp, i) ==
    IF Culled(view, i) THEN (IF vis[i] THEN "none" ELSE disp[i])
    ELSE IF finalAlpha(l[i], ProjectedZ(view, i)) > AlphaThreshold /\ ~vis[i] THEN "block"
    ELSE IF finalAlpha(l[i], ProjectedZ(view, i)) <= AlphaThreshold /\ vis[i] THEN "none"
    ELSE disp[i]

\* updateCritical: element.style.opacity after the frame
OpacityAfter(view, l, vis, op, i) ==
    IF ~Culled(view, i) /\ VisibleAfter(view, l, vis, i)
    THEN finalAlpha(l[i], ProjectedZ(view, i))
    ELSE op[i]

----------------------------------------------------------------------------
(* Operations *)

Called(op, arg, ret) == lastOp' = op /\ lastArg' = arg /\ lastRet' = ret

\* a direct call of getActiveObject()
GetActiveObject ==
    LET q == GetActiveObj(PoolState)
    IN /\ direct' = direct + 1
       /\ activeElements' = q.active
       /\ inactiveElements' = q.inactive
       /\ isActive' = q.isActive
       /\ Called("getActiveObject", 0, q.ret)
       /\ UNCHANGED <<envVars, themeVars, utilVars, metricList, textElementPool, styleVars, fleetVars, govVars,
                      frameVars, elapsed, checks, content, attached, currentMetrics, hung, runVars>>

\* a direct call of releaseObject(obj)
ReleaseObject(obj) ==
    LET q == ReleaseObj(PoolState, obj)
    IN /\ direct' = direct + 1
       /\ activeElements' = q.active
       /\ inactiveElements' = q.inactive
       /\ isActive' = q.isActive
       /\ display' = q.display
       /\ isVisible' = q.isVisible
       /\ Called("releaseObject", obj, 0)
       /\ UNCHANGED <<envVars, themeVars, utilVars, metricList, textElementPool, opacity, fleetVars, govVars,
                      frameVars, elapsed, checks, content, attached, currentMetrics, hung, runVars>>

\* "length < Math.min(textCount, ...)" on a fractional textCount: an integer
\* length is below it exactly when it is below its ceiling ("length >
\* textCount" compares with the floor, which is textCount itself)
CeilTextCount == textCount + (IF textCountFrac > 0 THEN 1 ELSE 0)

\* updateDisplayMetrics()
UpdateDisplayMetrics ==
    LET m  == DisplayMetricsLength(vehicles)
        p1 == ReleaseExcess(PoolState, textCount)
        p2 == IF p1.hung THEN p1 ELSE ActivateNeeded(p1, CeilTextCount, m)
    IN /\ currentMetrics' = m
       /\ metricList' = getDisplayMetrics(fleet, vehicles)
       /\ activeElements' = p2.active
       /\ inactiveElements' = p2.inactive
       /\ isActive' = p2.isActive
       /\ display' = p2.display
       /\ isVisible' = p2.isVisible
       /\ hung' = p2.hung
       /\ content' = IF p2.hung THEN content ELSE WriteContent(content, p2.active, m)
       /\ Called("updateDisplayMetrics", 0, 0)
       /\ UNCHANGED <<envVars, themeVars, utilVars, textElementPool, opacity, fleetVars, govVars,
                      frameVars, countVars, attached, runVars>>

\* a content refresh whose metric read stamps every vehicle it reads
UpdateTextContent_Stamps ==
    LET m == DisplayMetricsLength(vehicles)
    IN /\ currentMetrics' = m
       /\ metricList' = getDisplayMetrics(fleet, vehicles)
       /\ fleet' = [v \in vehicles |-> [fleet[v] EXCEPT !.lastUpdate = @ + 1]]
       /\ content' = WriteContent(content, activeElements, m)
       /\ Called("updateTextContent", 0, 0)
       /\ UNCHANGED <<envVars, themeVars, utilVars, poolVars, styleVars, vehicles, isRunning, ticks,
                      visited, clockVars, listenerVars, govVars, frameVars, countVars, attached, hung, runVars>>

\* updateTextContent(), also the body of the 2 s interval timer
UpdateTextContent ==
    LET m == DisplayMetricsLength(vehicles)
    IN /\ currentMetrics' = m
       /\ metricList' = getDisplayMetrics(fleet, vehicles)
       /\ content' = WriteContent(content, activeElements, m)
       /\ Called("updateTextContent", 0, 0)
       /\ UNCHANGED <<envVars, themeVars, utilVars, poolVars, styleVars, fleetVars, govVars,
                      frameVars, countVars, attached, hung, runVars>>

\* checkPerformance without the floor: no "textCount > 8" test, no Math.max
AdjustTextCount_NoFloor(tc, fps, optimal) ==
    IF fps < LowFPS
    THEN tc - DecreaseStep
    ELSE IF fps > HighFPS /\ tc < optimal
    THEN Min(optimal, tc + IncreaseStep)
    ELSE tc

\* checkPerformance stepping up as fast as it steps down
AdjustTextCount_Symmetric(tc, fps, optimal) ==
    IF fps < LowFPS /\ tc > MinTextCount
    THEN Max(MinTextCount, tc - DecreaseStep)
    ELSE IF fps > HighFPS /\ tc < optimal
    THEN Min(optimal, tc + DecreaseStep)
    ELSE tc

\* checkPerformance stepping down by one instead of two
AdjustTextCount_StepOne(tc, fps, optimal) ==
    IF fps < LowFPS /\ tc > MinTextCount
    THEN Max(MinTextCount, tc - IncreaseStep)
    ELSE IF fps > HighFPS /\ tc < optimal
    THEN Min(optimal, tc + IncreaseStep)
    ELSE tc

\* settings.textCount after checkPerformance has measured fps
AdjustTextCount(tc, fps, optimal) ==
    IF fps < LowFPS /\ tc > MinTextCount
    THEN Max(MinTextCount, tc - DecreaseStep)
    ELSE IF fps > HighFPS /\ tc < optimal
    THEN Min(optimal, tc + IncreaseStep)
    ELSE tc

\* the fraction of settings.textCount after checkPerformance: kept by
\* "textCount - 2" and "textCount + 1", dropped when Math.max / Math.min
\* return the bound
adjustFraction(tc, frac, fps, optimal) ==
    IF fps < LowFPS
    THEN (IF tc - DecreaseStep >= MinTextCount THEN frac ELSE 0)
    ELSE IF fps > HighFPS /\ tc < optimal
    THEN (IF tc + IncreaseStep < optimal THEN frac ELSE 0)
    ELSE frac

\* PerformanceMonitor.optimizePerformance on one scene's particles:
\* Math.max(8, textCount * 0.8), in units of 1 / FractionDen
optimizedTextCount(tc, frac) ==
    LET scaled == (4 * (tc * FractionDen + frac)) \div 5
    IN IF scaled < MinTextCount * FractionDen THEN MinTextCount * FractionDen ELSE scaled

\* optimizePerformance(), the monitor having measured fps
OptimizePerformance(fps) ==
    /\ optimizes' = optimizes + 1
    /\ IF fps < LowFPS
       THEN /\ textCount' = optimizedTextCount(textCount, textCountFrac) \div FractionDen
            /\ textCountFrac' = optimizedTextCount(textCount, textCountFrac) % FractionDen
       ELSE UNCHANGED <<textCount, textCountFrac>>
    /\ Called("optimizePerformance", fps, 0)
    /\ UNCHANGED <<envVars, themeVars, errorVars, loaderVars, metricList, poolVars, styleVars,
                   fleetVars, frameCount, currentFPS, frameVars, countVars, runVars, content, attached,
                   currentMetrics, hung>>

\* checkPerformance(), deltaTime ms after the previous check
CheckPerformance(deltaTime) ==
    /\ checks' = checks + 1
    /\ currentFPS' = MeasuredFPS(frameCount, deltaTime)
    /\ textCount' = AdjustTextCount(textCount, currentFPS', getOptimalTextCount(navigator))
    /\ textCountFrac' = adjustFraction(textCount, textCountFrac, currentFPS',
                                       getOptimalTextCount(navigator))
    /\ frameCount' = 0
    /\ lowRun' = IF currentFPS' < LowFPS THEN lowRun + 1 ELSE 0
    /\ runStart' = IF currentFPS' < LowFPS /\ lowRun > 0 THEN runStart
                   ELSE IF currentFPS' < LowFPS THEN textCount
                   ELSE textCount'
    /\ Called("checkPerformance", 0, 0)
    /\ UNCHANGED <<envVars, themeVars, errorVars, loaderVars, optimizes, metricList, poolVars, styleVars, fleetVars, frameVars, elapsed,
                   direct, content, attached, currentMetrics, hung>>

\* setCamera(camera)
SetCamera(c) ==
    /\ camera' = c
    /\ Called("setCamera", 0, 0)
    /\ UNCHANGED <<envVars, themeVars, utilVars, metricList, poolVars, styleVars, fleetVars, govVars, idleQueue,
                   life, countVars, content, attached, currentMetrics, hung, runVars>>

\* a frame that takes a camera for granted
CameraAvailable_Always(own, sceneCamera) == TRUE

\* this.camera || this.gl.world.activeScenes.current?.activeCamera
CameraAvailable(own, sceneCamera) == own \/ sceneCamera

\* update(): one rendered frame; sceneCamera is the scene's active camera (if any)
\* and view the camera position it projects through
Update(sceneCamera, view) ==
    /\ elapsed' = elapsed + 1
    /\ Called("update",
              IF Len(activeElements) = 0 \/ ~CameraAvailable(camera, sceneCamera)
              THEN "" ELSE view,
              0)
    /\ IF Len(activeElements) = 0
       THEN UNCHANGED <<frameCount, idleQueue, life, styleVars>>
       ELSE /\ frameCount' = frameCount + 1
            /\ IF ~CameraAvailable(camera, sceneCamera)
               THEN UNCHANGED <<idleQueue, life, styleVars>>
               ELSE /\ idleQueue' = IF hasIdleCallback THEN idleQueue + 1 ELSE idleQueue
                    /\ life' = IF hasIdleCallback THEN life
                               ELSE updateNonCritical(life, activeElements)
                    /\ isVisible' = [i \in Members |->
                          IF UpdatedByFrame(activeElements, i)
                          THEN VisibleAfter(view, life', isVisible, i) ELSE isVisible[i]]
                    /\ display' = [i \in Members |->
                          IF UpdatedByFrame(activeElements, i)
                          THEN DisplayAfter(view, life', isVisible, display, i) ELSE display[i]]
                    /\ opacity' = [i \in Members |->
                          IF UpdatedByFrame(activeElements, i)
                          THEN OpacityAfter(view, life', isVisible, opacity, i) ELSE opacity[i]]
    /\ UNCHANGED <<envVars, themeVars, utilVars, metricList, poolVars, fleetVars, textCount, currentFPS, camera,
                   direct, checks, content, attached, currentMetrics, hung, runVars>>

\* the host runs one queued requestIdleCallback callback: updateNonCritical
IdleCallback ==
    /\ idleQueue > 0
    /\ idleQueue' = idleQueue - 1
    /\ life' = updateNonCritical(life, activeElements)
    /\ Called("idleCallback", 0, 0)
    /\ UNCHANGED <<envVars, themeVars, utilVars, metricList, poolVars, styleVars, fleetVars, govVars, camera,
                   countVars, content, attached, currentMetrics, hung, runVars>>

ClockState == [isRunning |-> isRunning, liveTimers |-> liveTimers,
               simulationInterval |-> simulationInterval]

\* a start without the "already running" test: the handle of the earlier timer
\* is overwritten and the timer stays live
startDataSimulation_NoGuard(c) ==
    [c EXCEPT !.isRunning = TRUE, !.liveTimers = @ + 1, !.simulationInterval = TRUE]

\* FleetTelematicsData.startDataSimulation
startDataSimulation(c) ==
    IF c.isRunning THEN c
    ELSE [c EXCEPT !.isRunning = TRUE, !.liveTimers = @ + 1, !.simulationInterval = TRUE]

\* FleetTelematicsData.stopDataSimulation
stopDataSimulation(c) ==
    LET c1 == IF c.simulationInterval
              THEN [c EXCEPT !.liveTimers = @ - 1, !.simulationInterval = FALSE]
              ELSE c
    IN [c1 EXCEPT !.isRunning = FALSE]

\* a direct call of startDataSimulation(); returns nothing, lastRet records
\* whether a timer was set
StartDataSimulation ==
    /\ LET c == startDataSimulation(ClockState)
       IN /\ isRunning' = c.isRunning
          /\ liveTimers' = c.liveTimers
          /\ simulationInterval' = c.simulationInterval
          /\ Called("startDataSimulation", 0, c.liveTimers - liveTimers)
    /\ UNCHANGED <<envVars, themeVars, utilVars, metricList, poolVars, styleVars, vehicles,
                   fleet, ticks, visited, listenerVars, govVars, frameVars, countVars,
                   runVars, content, attached, currentMetrics, hung>>

\* a direct call of stopDataSimulation(); lastRet records whether a timer was cleared
StopDataSimulation ==
    /\ LET c == stopDataSimulation(ClockState)
       IN /\ isRunning' = c.isRunning
          /\ liveTimers' = c.liveTimers
          /\ simulationInterval' = c.simulationInterval
          /\ Called("stopDataSimulation", 0, liveTimers - c.liveTimers)
    /\ UNCHANGED <<envVars, themeVars, utilVars, metricList, poolVars, styleVars, vehicles,
                   fleet, ticks, visited, listenerVars, govVars, frameVars, countVars,
                   runVars, content, attached, currentMetrics, hung>>

\* Set.prototype.add: a callback already registered keeps its place
addListener(ls, callback) == IF Includes(ls, callback) THEN ls ELSE Append(ls, callback)

\* Set.prototype.delete
removeListener(ls, callback) == SelectSeq(ls, LAMBDA l : l # callback)

\* notifyListeners without try/catch: the first exception ends the forEach
RECURSIVE notifyListeners_NoCatch(_)
notifyListeners_NoCatch(ls) ==
    IF ls = <<>> THEN [notified |-> [l \in ListenerIds |-> 0], caught |-> 0]
    ELSE IF Head(ls) \in ThrowingListeners
    THEN [notified |-> [l \in ListenerIds |-> IF l = Head(ls) THEN 1 ELSE 0], caught |-> 0]
    ELSE LET rest == notifyListeners_NoCatch(Tail(ls))
         IN [rest EXCEPT !.notified[Head(ls)] = @ + 1]

\* notifyListeners: every callback is called inside its own try/catch
RECURSIVE notifyListeners(_)
notifyListeners(ls) ==
    IF ls = <<>> THEN [notified |-> [l \in ListenerIds |-> 0], caught |-> 0]
    ELSE LET rest == notifyListeners(Tail(ls))
         IN [rest EXCEPT !.notified[Head(ls)] = @ + 1,
                         !.caught = IF Head(ls) \in ThrowingListeners THEN @ + 1 ELSE @]

\* addListener(callback)
AddListener(callback) ==
    /\ listeners' = addListener(listeners, callback)
    /\ Called("addListener", callback, 0)
    /\ UNCHANGED <<envVars, themeVars, utilVars, metricList, poolVars, styleVars, vehicles,
                   fleet, isRunning, ticks, visited, clockVars, notified, caught, govVars,
                   frameVars, countVars, runVars, content, attached, currentMetrics, hung>>

\* removeListener(callback)
RemoveListener(callback) ==
    /\ listeners' = removeListener(listeners, callback)
    /\ Called("removeListener", callback, 0)
    /\ UNCHANGED <<envVars, themeVars, utilVars, metricList, poolVars, styleVars, vehicles,
                   fleet, isRunning, ticks, visited, clockVars, notified, caught, govVars,
                   frameVars, countVars, runVars, content, attached, currentMetrics, hung>>

\* the simulation interval timer fires: updateVehicleData(), then
\* notifyListeners() over a listener set that is empty; the tick singles out
\* vehicle target for the draws d
SimulationTick(target, d) ==
    /\ liveTimers > 0
    /\ LET t == updateVehicleData(fleet, vehicles, DrawsFor(target, d), ticks + 1)
       IN fleet' = t.fleet /\ visited' = t.visited
    /\ LET n == notifyListeners(listeners)
       IN notified' = n.notified /\ caught' = n.caught
    /\ ticks' = ticks + 1
    /\ Called("updateVehicleData", target, 0)
    /\ UNCHANGED <<envVars, themeVars, utilVars, metricList, poolVars, styleVars, vehicles,
                   isRunning, clockVars, listeners, govVars, frameVars,
                   countVars, runVars, content, attached, currentMetrics, hung>>

\* theme-change payloads: null, a theme without its '3d' group, two valid themes
Themes ==
    { [name |-> "null",  isNull |-> TRUE,  has3d |-> FALSE, group |-> ""],
      [name |-> "no3d",  isNull |-> FALSE, has3d |-> FALSE, group |-> ""],
      [name |-> "light", isNull |-> FALSE, has3d |-> TRUE,  group |-> "light"],
      [name |-> "dark",  isNull |-> FALSE, has3d |-> TRUE,  group |-> "dark"] }

ThemeState == [colors |-> colors, appliedColors |-> appliedColors,
               applies |-> applies, thrown |-> thrown,
               rootColors |-> rootColors, elementColor |-> elementColor,
               activeElements |-> activeElements]

\* ThemeUpdater.updateFleetTelematicsParticleColors on the overlay: textElements
\* is activeElements.map(obj => obj.mesh); an empty list returns before the
\* custom properties are set
updateFleetTelematicsParticleColors(st) ==
    IF Len(st.activeElements) = 0 THEN st
    ELSE [st EXCEPT !.rootColors = st.colors,
                    !.elementColor = [i \in Members |->
                        IF IndexOf(st.activeElements, i) > 0 THEN st.colors ELSE @[i]]]

\* ThemeUpdater.updateSceneColors: skipped while gl.world is missing; the three
\* updates run inside try/catch
updateSceneColors(st, worldReady) ==
    IF ~worldReady THEN st
    ELSE updateFleetTelematicsParticleColors(
             [st EXCEPT !.appliedColors = st.colors, !.applies = @ + 1])

\* the color an element is drawn in: its own style, or the custom property it reads
EffectiveColor(i) == IF elementColor[i] = "var" THEN rootColors ELSE elementColor[i]

\* a handler without the payload test: theme['3d'] of null throws, a missing
\* group becomes the colors in force
handleThemeChange_Unguarded(st, theme, worldReady) ==
    IF theme.isNull THEN [st EXCEPT !.thrown = TRUE]
    ELSE updateSceneColors([st EXCEPT !.colors = theme.group], worldReady)

\* ThemeUpdater.handleThemeChange
handleThemeChange(st, theme, worldReady) ==
    IF theme.isNull \/ ~theme.has3d THEN st
    ELSE updateSceneColors([st EXCEPT !.colors = theme.group], worldReady)

\* the theme store notifies the subscriber registered by the constructor;
\* worldReady: gl.world exists at that moment
HandleThemeChange(theme, worldReady) ==
    /\ LET t == handleThemeChange(ThemeState, theme, worldReady)
       IN /\ colors' = t.colors
          /\ appliedColors' = t.appliedColors
          /\ applies' = t.applies
          /\ thrown' = t.thrown
          /\ rootColors' = t.rootColors
          /\ elementColor' = t.elementColor
    /\ Called("handleThemeChange", theme.name,
              IF ~theme.isNull /\ theme.has3d /\ worldReady THEN 1 ELSE 0)
    /\ UNCHANGED <<envVars, utilVars, poolVars, styleVars, fleetVars, govVars, frameVars,
                   countVars, runVars, content, attached, currentMetrics, metricList, hung>>

LoaderState == [loadedModules |-> loadedModules, loadingPromises |-> loadingPromises,
                promises |-> promises, loads |-> loads]

\* a loadModule that does not look into loadingPromises
loadModule_NoInFlightCheck(st, name) ==
    IF name \in st.loadedModules
    THEN [st EXCEPT !.loads = Append(@, [name |-> name, promise |-> 0, role |-> "cached",
                                         result |-> "instance"])]
    ELSE LET id == Len(st.promises) + 1
         IN [st EXCEPT !.promises = Append(@, [name |-> name, state |-> "pending"]),
                       !.loadingPromises[name] = id,
                       !.loads = Append(@, [name |-> name, promise |-> id, role |-> "owner",
                                            result |-> "pending"])]

\* LazyLoader.loadModule up to its first await
loadModule(st, name) ==
    IF name \in st.loadedModules
    THEN [st EXCEPT !.loads = Append(@, [name |-> name, promise |-> 0, role |-> "cached",
                                         result |-> "instance"])]
    ELSE IF st.loadingPromises[name] # 0
    THEN [st EXCEPT !.loads = Append(@, [name |-> name, promise |-> st.loadingPromises[name],
                                         role |-> "waiter", result |-> "pending"])]
    ELSE LET id == Len(st.promises) + 1
         IN [st EXCEPT !.promises = Append(@, [name |-> name, state |-> "pending"]),
                       !.loadingPromises[name] = id,
                       !.loads = Append(@, [name |-> name, promise |-> id, role |-> "owner",
                                            result |-> "pending"])]

\* LazyLoader.loadModule after its await: the call that started the import
\* records the class or forgets the promise; a call that waited on another's
\* promise only returns or throws
resumeLoad(st, k) ==
    LET load == st.loads[k]
        ok   == st.promises[load.promise].state = "resolved"
        st1  == [st EXCEPT !.loads[k].result = IF ok THEN "instance" ELSE "error"]
    IN IF load.role # "owner" THEN st1
       ELSE IF ok
       THEN [st1 EXCEPT !.loadedModules = @ \cup {load.name},
                        !.loadingPromises[load.name] = 0]
       ELSE [st1 EXCEPT !.loadingPromises[load.name] = 0]

\* a call of loadModule(moduleName, element)
LoadModule(name) ==
    /\ LET st == loadModule(LoaderState, name)
       IN /\ loadedModules' = st.loadedModules
          /\ loadingPromises' = st.loadingPromises
          /\ promises' = st.promises
          /\ loads' = st.loads
    /\ Called("loadModule", name, 0)
    /\ UNCHANGED <<envVars, themeVars, errorVars, monitorVars, poolVars, styleVars, fleetVars,
                   govVars, frameVars, countVars, runVars, content, attached, currentMetrics,
                   metricList, hung>>

\* dynamicImport settles: a name of the module map may load or fail, a name
\* that is not in it is rejected
SettleImport(id, ok) ==
    /\ id \in 1..Len(promises)
    /\ promises[id].state = "pending"
    /\ ok => promises[id].name = "menu"
    /\ promises' = [promises EXCEPT ![id].state = IF ok THEN "resolved" ELSE "rejected"]
    /\ Called("dynamicImport", id, 0)
    /\ UNCHANGED <<envVars, themeVars, errorVars, monitorVars, loadedModules, loadingPromises,
                   loads, poolVars, styleVars, fleetVars, govVars, frameVars, countVars,
                   runVars, content, attached, currentMetrics, metricList, hung>>

\* the continuation of the k-th loadModule call runs, its promise having settled
ResumeLoad(k) ==
    /\ k \in 1..Len(loads)
    /\ loads[k].result = "pending"
    /\ promises[loads[k].promise].state # "pending"
    /\ LET st == resumeLoad(LoaderState, k)
       IN /\ loadedModules' = st.loadedModules
          /\ loadingPromises' = st.loadingPromises
          /\ promises' = st.promises
          /\ loads' = st.loads
    /\ Called("resumeLoad", k, 0)
    /\ UNCHANGED <<envVars, themeVars, errorVars, monitorVars, poolVars, styleVars, fleetVars,
                   govVars, frameVars, countVars, runVars, content, attached, currentMetrics,
                   metricList, hung>>

\* messages of the 'error' events dispatched on window
ErrorMessages == {"Test error", ""}

\* reasons of the 'unhandledrejection' events: no reason, an Error with a
\* message, an Error with an empty message
Rejections ==
    { [hasReason |-> FALSE, message |-> ""],
      [hasReason |-> TRUE,  message |-> "Promise error"],
      [hasReason |-> TRUE,  message |-> ""] }

\* event.reason?.message || 'Unhandled Promise Rejection'
rejectionMessage(reason) ==
    IF reason.hasReason /\ reason.message # "" THEN reason.message
    ELSE "Unhandled Promise Rejection"

\* an error handler that keeps only the latest record
handleError_KeepsLatest(errs, errorInfo) == <<errorInfo>>

\* ErrorBoundary.handleError: this.errors.push({...errorInfo, ...})
handleError(errs, errorInfo) == Append(errs, errorInfo)

\* handleError as a whole: the record, the notification (showErrorMessage) and
\* its auto-hide timeout; reportError does nothing without gtag
HandleError(errorInfo) ==
    /\ errors' = handleError(errors, errorInfo)
    /\ notification' = errorInfo.type
    /\ hideTimers' = hideTimers + 1

\* window 'error' listener installed by setupGlobalErrorHandling
WindowError(message) ==
    /\ HandleError([type |-> "javascript", message |-> message])
    /\ Called("error", message, 0)
    /\ UNCHANGED <<envVars, themeVars, monitorVars, loaderVars, poolVars, styleVars, fleetVars,
                   govVars, frameVars, countVars, runVars, content, attached, currentMetrics,
                   metricList, hung>>

\* window 'unhandledrejection' listener installed by setupGlobalErrorHandling
UnhandledRejection(reason) ==
    /\ HandleError([type |-> "promise", message |-> rejectionMessage(reason)])
    /\ Called("unhandledrejection", IF reason.hasReason THEN reason.message ELSE "", 0)
    /\ UNCHANGED <<envVars, themeVars, monitorVars, loaderVars, poolVars, styleVars, fleetVars,
                   govVars, frameVars, countVars, runVars, content, attached, currentMetrics,
                   metricList, hung>>

\* the 10 s timeout set by showErrorMessage removes the notification if it is
\* still in the document
NotificationTimeout ==
    /\ hideTimers > 0
    /\ hideTimers' = hideTimers - 1
    /\ notification' = "none"
    /\ Called("hideNotification", 0, 0)
    /\ UNCHANGED <<envVars, themeVars, monitorVars, loaderVars, errors, poolVars, styleVars, fleetVars, govVars,
                   frameVars, countVars, runVars, content, attached, currentMetrics,
                   metricList, hung>>

\* ErrorBoundary.clearErrors
ClearErrors ==
    /\ errors' = <<>>
    /\ Called("clearErrors", 0, 0)
    /\ UNCHANGED <<envVars, themeVars, monitorVars, loaderVars, notification, hideTimers, poolVars, styleVars,
                   fleetVars, govVars, frameVars, countVars, runVars, content, attached,
                   currentMetrics, metricList, hung>>

\* a destroy() that forgets fleetData.destroy(): the fleet and its timer live on
Destroy_KeepsTimer ==
    /\ UNCHANGED <<vehicles, fleet, isRunning, ticks, visited, clockVars, listenerVars>>
    /\ attached' = [i \in Members |-> IF IndexOf(textElementPool, i) > 0 THEN FALSE ELSE attached[i]]
    /\ textElementPool' = <<>>
    /\ activeElements' = <<>>
    /\ inactiveElements' = <<>>
    /\ currentMetrics' = 0
    /\ metricList' = <<>>
    /\ Called("destroy", 0, 0)
    /\ UNCHANGED <<envVars, themeVars, utilVars, isActive, styleVars, govVars, frameVars, countVars,
                   content, hung, runVars>>

\* destroy()
Destroy ==
    /\ vehicles' = {}
    /\ fleet' = <<>>
    /\ LET c == stopDataSimulation(ClockState)
       IN /\ isRunning' = c.isRunning
          /\ liveTimers' = c.liveTimers
          /\ simulationInterval' = c.simulationInterval
    /\ listeners' = <<>>
    /\ UNCHANGED <<ticks, visited, notified, caught>>
    /\ attached' = [i \in Members |-> IF IndexOf(textElementPool, i) > 0 THEN FALSE ELSE attached[i]]
    /\ textElementPool' = <<>>
    /\ activeElements' = <<>>
    /\ inactiveElements' = <<>>
    /\ currentMetrics' = 0
    /\ metricList' = <<>>
    /\ Called("destroy", 0, 0)
    /\ UNCHANGED <<envVars, themeVars, utilVars, isActive, styleVars, govVars, frameVars, countVars,
                   content, hung, runVars>>

----------------------------------------------------------------------------
(* The overlay pool under direct calls, reconciliation and governor windows *)

Next ==
    \/ direct < MaxDirect /\ GetActiveObject
    \/ direct < MaxDirect /\ \E obj \in ReleaseArgs : ReleaseObject(obj)
    \/ UpdateDisplayMetrics
    \/ checks < MaxChecks /\ \E deltaTime \in DeltaTimes : CheckPerformance(deltaTime)

Spec == Init /\ [][Next]_vars

(* Reconciliation over pools left by direct calls and over the destroyed pool *)

NextReconcile ==
    \/ direct < MaxDirect /\ GetActiveObject
    \/ direct < MaxDirect /\ \E obj \in ReleaseArgs : ReleaseObject(obj)
    \/ UpdateDisplayMetrics
    \/ Destroy

SpecReconcile == Init /\ [][NextReconcile]_vars

(* The overlay pool driven to exhaustion by direct calls only *)

NextAcquire ==
    \/ direct < poolSize + MaxDirect /\ GetActiveObject
    \/ direct < poolSize + MaxDirect /\ \E obj \in ReleaseArgs : ReleaseObject(obj)

SpecAcquire == Init /\ [][NextAcquire]_vars

(* The governor: frames counted by update(), windows closed by checkPerformance() *)

NextGov ==
    \/ UpdateDisplayMetrics
    \/ checks < MaxChecks /\ \E deltaTime \in DeltaTimes : CheckPerformance(deltaTime)
    \/ elapsed < MaxElapsed /\ \E sceneCamera \in BOOLEAN : Update(sceneCamera, "front")
    \/ IdleCallback

SpecGov == Init /\ [][NextGov]_vars

(* The governor and the performance monitor writing the same target *)

NextMonitor ==
    \/ UpdateDisplayMetrics
    \/ checks < MaxChecks /\ \E deltaTime \in {10, 100} : CheckPerformance(deltaTime)
    \/ optimizes < MaxOptimize /\ \E fps \in MonitorFPS : OptimizePerformance(fps)
    \/ elapsed < MaxElapsed /\ Update(TRUE, "front")

SpecMonitor == Init /\ [][NextMonitor]_vars

(* Frames over a pool whose members are released and re-acquired *)

NextFrame ==
    \/ direct < MaxDirect /\ \E obj \in ReleaseArgs : ReleaseObject(obj)
    \/ UpdateDisplayMetrics
    \/ UpdateTextContent
    \/ elapsed < MaxElapsed /\ \E sceneCamera \in BOOLEAN, view \in ViewNames : Update(sceneCamera, view)
    \/ IdleCallback

SpecFrame == Init /\ [][NextFrame]_vars

(* Frames of a scene that has no camera of its own: the overlay projects only *)
(* once setCamera has given it one                                            *)

NextCamera ==
    \/ UpdateDisplayMetrics
    \/ \E c \in BOOLEAN : SetCamera(c)
    \/ elapsed < MaxElapsed + 1 /\ \E view \in {"front", "mixed"} : Update(FALSE, view)
    \/ IdleCallback

SpecCamera == Init /\ [][NextCamera]_vars

(* The fleet simulation: ticks with speed, harsh-event and status draws *)

NextFleet ==
    \/ ticks < MaxTicks /\ \E target \in TickTargets, d \in TickDraws : SimulationTick(target, d)
    \/ UpdateTextContent
    \/ Destroy

SpecFleet == Init /\ [][NextFleet]_vars

(* A shown overlay over a running fleet, torn down at any moment; the text *)
(* timer, which destroy() does not clear, keeps firing afterwards          *)

NextTeardown ==
    \/ isRunning /\ UpdateDisplayMetrics
    \/ ticks < MaxTicks /\ \E target \in TickTargets, d \in MetricDraws : SimulationTick(target, d)
    \/ UpdateTextContent
    \/ Destroy

SpecTeardown == Init /\ [][NextTeardown]_vars

(* The lazy loader under overlapping loadModule calls *)

NextLoader ==
    \/ Len(loads) < MaxLoads /\ \E name \in ModuleNames : LoadModule(name)
    \/ \E id \in 1..MaxLoads + 1, ok \in BOOLEAN : SettleImport(id, ok)
    \/ \E k \in 1..MaxLoads + 1 : ResumeLoad(k)

SpecLoader == Init /\ [][NextLoader]_vars

(* The error boundary: window events, the notification's timeout, clearErrors *)

NextErrors ==
    \/ hideTimers < MaxErrors /\ Len(errors) < MaxErrors /\
          \E message \in ErrorMessages : WindowError(message)
    \/ hideTimers < MaxErrors /\ Len(errors) < MaxErrors /\
          \E reason \in Rejections : UnhandledRejection(reason)
    \/ NotificationTimeout
    \/ ClearErrors

SpecErrors == Init /\ [][NextErrors]_vars

(* Theme notifications, valid and invalid, over a shown overlay *)

NextTheme ==
    \/ UpdateDisplayMetrics
    \/ applies < MaxThemes /\ \E theme \in Themes, worldReady \in BOOLEAN :
          HandleThemeChange(theme, worldReady)

SpecTheme == Init /\ [][NextTheme]_vars

(* The metric projection over a fleet whose temperatures, connectivity and run *)
(* states move                                                                 *)

NextMetrics ==
    \/ ticks < MaxTicks /\ \E target \in TickTargets, d \in MetricDraws : SimulationTick(target, d)
    \/ UpdateTextContent
    \/ Destroy

SpecMetrics == Init /\ [][NextMetrics]_vars

(* The simulation clock under start and stop calls *)

NextClock ==
    \/ StartDataSimulation
    \/ StopDataSimulation
    \/ ticks < MaxTicks /\ \E target \in TickTargets, d \in ClockDraws : SimulationTick(target, d)
    \/ Destroy

SpecClock == Init /\ [][NextClock]_vars

(* The fleet's listeners over a ticking simulation *)

NextListeners ==
    \/ \E callback \in ListenerIds : AddListener(callback)
    \/ \E callback \in ListenerIds : RemoveListener(callback)
    \/ ticks < MaxTicks /\ \E d \in ClockDraws : SimulationTick(1, d)
    \/ Destroy

SpecListeners == Init /\ [][NextListeners]_vars

(* The engine readings: ticks that move temperature, rpm and run state *)

NextEngine ==
    \/ ticks < MaxTicks /\ \E target \in EngineTargets, d \in EngineDraws :
          SimulationTick(target, d)
    \/ Destroy

SpecEngine == Init /\ [][NextEngine]_vars

(* The fleet simulation: ticks with fault-code draws, enough of them to fill a list *)

NextFaults ==
    \/ ticks < MaxFaultCodes + MaxTicks - 1 /\
          \E target \in TickTargets, d \in FaultDraws : SimulationTick(target, d)
    \/ Destroy

SpecFaults == Init /\ [][NextFaults]_vars

----------------------------------------------------------------------------
(* Properties *)

Range(s) == {s[i] : i \in 1..Len(s)}

activeCount == Len(activeElements)

\* C1: after every reconciliation (updateDisplayMetrics), whatever calls of
\* getActiveObject / releaseObject and governor windows came before, the number
\* of active members is at most the pool capacity and at most textCount.
C1_ReconciledWithinTarget ==
    lastOp = "updateDisplayMetrics" =>
        /\ activeCount <= poolSize
        /\ activeCount <= textCount
        /\ Cardinality({i \in Members : isActive[i]}) <= textCount

\* a reconciliation that had to release: the governor lowered the target after
\* members had been shown, no direct release was made, and yet a member that
\* once carried content is inactive again
C1_Witness ==
    /\ lastOp = "updateDisplayMetrics"
    /\ checks > 0
    /\ direct = 0
    /\ activeCount = textCount
    /\ \E i \in Members : ~isActive[i] /\ content[i] # 0

\* C2 (as claimed): in every reachable state at most textCount members have
\* isActive = true, also between a governor decrease and the next reconciliation.
C2_AlwaysWithinTarget ==
    Cardinality({i \in Members : isActive[i]}) <= textCount

\* C3: from an empty active set, with the whole pool of 32 and the 49 metrics of
\* 12 vehicles, one reconciliation leaves exactly min(textCount, 49) active members.
C3_ReconcileFromEmpty ==
    [][(/\ lastOp' = "updateDisplayMetrics"
        /\ activeElements = <<>>
        /\ Len(textElementPool) = poolSize)
       => /\ currentMetrics' = 4 * FleetSize + 1
          /\ Len(activeElements') = Min(textCount, currentMetrics')]_vars

\* the first reconciliation after construction has run (nothing else has)
C3_Witness ==
    /\ lastOp = "updateDisplayMetrics"
    /\ direct = 0
    /\ checks = 0
    /\ activeCount = Min(textCount, currentMetrics)
    /\ activeCount > 0

\* C4 (as claimed): every update() reconciles first, so after it the active
\* count is min(textCount, available metrics) and at most textCount.
C4_UpdateReconciles ==
    lastOp = "update" =>
        /\ activeCount >= Min(textCount, currentMetrics)
        /\ activeCount <= textCount

\* C5: before destroy, activeElements and inactiveElements are disjoint, hold no
\* member twice, together are exactly the 32 members of the pool, and isActive
\* is true exactly for the members of activeElements.
C5_PoolPartition ==
    Len(textElementPool) = poolSize =>
        /\ Range(activeElements) \cap Range(inactiveElements) = {}
        /\ Range(activeElements) \cup Range(inactiveElements) = Range(textElementPool)
        /\ Range(textElementPool) = Members
        /\ Len(activeElements) + Len(inactiveElements) = poolSize
        /\ Cardinality(Range(activeElements)) = Len(activeElements)
        /\ Cardinality(Range(inactiveElements)) = Len(inactiveElements)
        /\ \A i \in Members : isActive[i] <=> i \in Range(activeElements)

\* the first member activated was released from the front of activeElements
\* while others stayed active
C5_Witness ==
    /\ lastOp = "releaseObject"
    /\ lastArg = poolSize
    /\ ~isActive[poolSize]
    /\ activeCount > 0
    /\ inactiveElements[Len(inactiveElements)] = poolSize

\* C6: getActiveObject returns null and changes nothing of the pool when
\* inactiveElements is empty; otherwise it moves exactly one member from
\* inactiveElements to activeElements, marks it active and returns it.
C6_GetActiveObject ==
    [][lastOp' = "getActiveObject" =>
        IF inactiveElements = <<>>
        THEN lastRet' = 0 /\ UNCHANGED <<poolVars, styleVars>>
        ELSE /\ lastRet' \in Range(inactiveElements)
             /\ Range(inactiveElements') = Range(inactiveElements) \ {lastRet'}
             /\ Len(inactiveElements') = Len(inactiveElements) - 1
             /\ Range(activeElements') = Range(activeElements) \cup {lastRet'}
             /\ Len(activeElements') = Len(activeElements) + 1
             /\ isActive' = [isActive EXCEPT ![lastRet'] = TRUE]
             /\ UNCHANGED <<textElementPool, styleVars>>]_vars

\* getActiveObject was called on the exhausted pool and returned null
C6_Witness ==
    /\ lastOp = "getActiveObject"
    /\ lastRet = 0
    /\ activeCount = poolSize
    /\ inactiveElements = <<>>

\* C7: releaseObject is idempotent: on a member that is already inactive it
\* changes nothing (the member is not pushed on inactiveElements again), and
\* releasing twice gives the same pool as releasing once.
C7_ReleaseIdempotent ==
    /\ [](\A m \in Members :
            /\ ~isActive[m] => ReleaseObj(PoolState, m) = PoolState
            /\ ReleaseObj(ReleaseObj(PoolState, m), m) = ReleaseObj(PoolState, m))
    /\ [][(lastOp' = "releaseObject" /\ ~isActive[lastArg'])
            => UNCHANGED <<poolVars, styleVars>>]_vars

\* two direct calls were made, the last one releaseObject on the first member
\* activated, and only one member is missing from the reconciled set: one of the
\* two calls was a release of an already inactive member
C7_Witness ==
    /\ lastOp = "releaseObject"
    /\ lastArg = poolSize
    /\ direct = 2
    /\ checks = 0
    /\ ~isActive[poolSize]
    /\ activeCount = textCount - 1
    /\ Cardinality(Range(inactiveElements)) = Len(inactiveElements)

\* C8: an inactive pool member is never drawn: its element has display none
\* and isVisible false, whatever frames, content refreshes and reconciliations ran.
C8_InactiveHidden ==
    \A i \in Members :
        (~isActive[i] \/ i \in Range(inactiveElements)) =>
            display[i] = "none" /\ ~isVisible[i]

\* a member was shown by a reconciliation (it carries content), was released,
\* and a later frame that did draw active members left it hidden
C8_Witness ==
    /\ lastOp = "update"
    /\ \E j \in Members : isActive[j] /\ isVisible[j] /\ opacity[j] > 0
    /\ \E i \in Members : ~isActive[i] /\ content[i] # 0 /\ display[i] = "none"

\* C9: textCount never goes below 8, never above getOptimalTextCount()
\* (12, 16 or 24), hence never above the pool capacity 32.
C9_TargetInRange ==
    /\ textCount >= MinTextCount
    /\ textCount <= getOptimalTextCount(navigator)
    /\ getOptimalTextCount(navigator) \in {MobileTextCount, LowEndTextCount, DesktopTextCount}
    /\ textCount <= poolSize

\* a window with low FPS closed while the target already stood at the floor
C9_Witness ==
    /\ lastOp = "checkPerformance"
    /\ checks >= 3
    /\ currentFPS < LowFPS
    /\ textCount = MinTextCount

\* C10: one governor window changes textCount by -2 floored at 8 when the
\* measured FPS is below 30, by +1 capped at the ceiling when it is above 50,
\* and not at all otherwise; the change always lies in [-2, +1].
C10_WindowStep ==
    [][lastOp' = "checkPerformance" =>
        /\ currentFPS' < 30 => textCount' = Max(8, textCount - 2)
        /\ currentFPS' > 50 =>
              textCount' = Min(getOptimalTextCount(navigator), textCount + 1)
        /\ (currentFPS' >= 30 /\ currentFPS' <= 50) => textCount' = textCount
        /\ textCount' - textCount \in -2..1]_vars

\* a window with more than 50 FPS raised the target by one after a decrease
C10_Witness ==
    /\ lastOp = "checkPerformance"
    /\ currentFPS > HighFPS
    /\ checks = 2
    /\ textCount = getOptimalTextCount(navigator) - 1

\* C11: after k consecutive governor windows that each measured less than
\* 30 FPS, starting from a target t0, the target is max(8, t0 - 2k): 24 becomes
\* 22, 20, 18 over three such windows, and the target never goes below 8.
C11_LowRunClosedForm ==
    /\ lowRun > 0 => textCount = Max(8, runStart - 2 * lowRun)
    /\ textCount >= 8

\* three low windows in a row took the desktop target from 24 to 18
C11_Witness ==
    /\ lastOp = "checkPerformance"
    /\ lowRun = 3
    /\ runStart = 24
    /\ textCount = 18

\* C12 (as claimed): every update() call adds one to frameCount, and every
\* window boundary computes the FPS from that count and resets it to 0.
C12_EveryUpdateCounted ==
    [][/\ lastOp' = "update" => frameCount' = frameCount + 1
       /\ lastOp' = "checkPerformance" =>
             /\ frameCount' = 0
             /\ \E deltaTime \in DeltaTimes :
                   currentFPS' = MeasuredFPS(frameCount, deltaTime)]_vars

\* C13 (as claimed): a vehicle whose status.state is idle has speed 0, in the
\* initial state and after every tick.
C13_IdleImpliesStopped ==
    \A v \in vehicles : fleet[v].state = "idle" => fleet[v].speed = 0

\* C14: a tick that finds a vehicle idle leaves its fuel.level unchanged and
\* sets its fuel.consumption to 0.
C14_IdleBurnsNothing ==
    [][lastOp' = "updateVehicleData" =>
        \A v \in vehicles :
            fleet[v].state = "idle" =>
                /\ fleet'[v].level = fleet[v].level
                /\ fleet'[v].consumption = 0]_vars

\* vehicle 1 drove through the first tick, went idle at its end, and the
\* second tick found it idle: no consumption, level as the first tick left it
C14_Witness ==
    /\ lastOp = "updateVehicleData"
    /\ ticks = 2
    /\ fleet[1].state = "idle"
    /\ fleet[1].consumption = 0
    /\ fleet[1].level = initialVehicle(1).level - fuelUsed(initialVehicle(1))

\* fuel levels (microlitres) at which one tick's consumption reaches the floor
LowLevels == {0, 1, 100, 2000}

\* C15: every vehicle's fuel.level is within [0, capacity] in every state; a
\* step never raises it; and from a nearly empty tank a tick stops at 0.
C15_FuelInRange ==
    /\ [](\A v \in vehicles :
            /\ fleet[v].level >= 0
            /\ fleet[v].level <= fleet[v].capacity * 1000000
            /\ \A l \in LowLevels :
                 LET after == updateFuelData([fleet[v] EXCEPT !.level = l]).level
                 IN after >= 0 /\ after <= l)
    /\ [][\A v \in vehicles \cap vehicles' : fleet'[v].level <= fleet[v].level]_vars

\* two ticks have lowered the level of a driving vehicle, which is still above 0
C15_Witness ==
    /\ lastOp = "updateVehicleData"
    /\ ticks = 2
    /\ fleet[3].state = "driving"
    /\ fleet[3].level < initialVehicle(3).level - fuelUsed(initialVehicle(3))
    /\ fleet[3].level > 0

\* C16: every vehicle's driver.score is within [50, 100] in every state, and
\* after a tick it is max(50, 100 - 10 * events per driving hour).
C16_ScoreInRange ==
    \A v \in vehicles :
        /\ fleet[v].score >= 5000
        /\ fleet[v].score <= 10000
        /\ lastOp = "updateVehicleData" =>
             LET events == fleet[v].harshAcceleration + fleet[v].harshBraking
                             + fleet[v].harshCornering
                 perHourTimes1000 == IF fleet[v].drivingTime > 0
                                     THEN (events * 3600000) \div fleet[v].drivingTime
                                     ELSE 0
             IN /\ perHourTimes1000 >= 0
                /\ fleet[v].score = Max(5000, 10000 - perHourTimes1000)

\* after a tick one driver sits on the floor of 50 (seven events in about an
\* hour of driving) while another, who just had a harsh event, is above it
C16_Witness ==
    /\ lastOp = "updateVehicleData"
    /\ fleet[4].score = 5000
    /\ fleet[1].score > 5000 /\ fleet[1].score < 10000
    /\ fleet[1].harshBraking > initialVehicle(1).harshBraking

\* C17: a vehicle's engine.faultCodes never holds more than 3 codes nor the
\* same code twice, and one tick appends at most one code to it.
C17_FaultCodesBounded ==
    /\ [](\A v \in vehicles :
            /\ Len(fleet[v].faultCodes) <= 3
            /\ Cardinality(Range(fleet[v].faultCodes)) = Len(fleet[v].faultCodes))
    /\ [][\A v \in vehicles \cap vehicles' :
            \/ fleet'[v].faultCodes = fleet[v].faultCodes
            \/ /\ Len(fleet'[v].faultCodes) = Len(fleet[v].faultCodes) + 1
               /\ SubSeq(fleet'[v].faultCodes, 1, Len(fleet[v].faultCodes))
                    = fleet[v].faultCodes]_vars

\* after four ticks vehicle 1 holds three codes and vehicle 2 none: the list
\* was full, or the draw was a repeat or no fault, in one of the ticks
C17_Witness ==
    /\ lastOp = "updateVehicleData"
    /\ ticks = 4
    /\ Len(fleet[1].faultCodes) = 3
    /\ Len(fleet[2].faultCodes) = 0

\* C18: until destroy the population is the 12 vehicles VH-001..VH-012 under
\* their 12 keys, and every tick visits each of them exactly once in insertion
\* order, so all carry the time of the last tick.
C18_EveryVehicleOncePerTick ==
    isRunning =>
        /\ vehicles = 1..12
        /\ DOMAIN fleet = vehicles
        /\ \A v \in vehicles : fleet[v].id = vehicleIds[v]
        /\ Cardinality({fleet[v].id : v \in vehicles}) = 12
        /\ \A v \in vehicles : fleet[v].lastUpdate = ticks
        /\ ticks > 0 => visited = [k \in 1..12 |-> k]

\* the second tick has visited the twelve vehicles
C18_Witness ==
    /\ lastOp = "updateVehicleData"
    /\ isRunning
    /\ ticks = 2
    /\ Len(visited) = 12
    /\ fleet[12].lastUpdate = 2

Reverse(s) == [k \in 1..Len(s) |-> s[Len(s) + 1 - k]]

\* C19: for every draw of the next tick, walking the vehicles forwards or
\* backwards gives the same store, and each vehicle's new record is the update
\* of its own record under its own draws.
C19_OrderIndependent ==
    isRunning =>
        \A target \in TickTargets, d \in TickDraws :
            LET draws    == DrawsFor(target, d)
                order    == PopulationOrder(vehicles)
                start    == [fleet |-> fleet, visited |-> <<>>]
                forward  == ForEachVehicle(start, order, 1, draws, ticks + 1).fleet
                backward == ForEachVehicle(start, Reverse(order), 1, draws, ticks + 1).fleet
            IN /\ forward = backward
               /\ \A v \in vehicles :
                    forward[v] = updateVehicle(fleet[v], draws[v], ticks + 1)

\* a tick changed the speed of vehicle 1 and left the speed of its neighbours alone
C19_Witness ==
    /\ lastOp = "updateVehicleData"
    /\ lastArg = 1
    /\ fleet[1].speed # initialVehicle(1).speed
    /\ fleet[3].speed = initialVehicle(3).speed
    /\ fleet[12].speed = initialVehicle(12).speed

\* C20: getDisplayMetrics returns 4n + 1 metrics for n vehicles: for the k-th
\* vehicle in insertion order the location, fuel, engine and driver metric, in
\* that order and with that vehicle's id, then one fleet metric with id FLEET.
C20_MetricsLayout ==
    LET metrics == getDisplayMetrics(fleet, vehicles)
        order   == PopulationOrder(vehicles)
        n       == Cardinality(vehicles)
    IN /\ Len(metrics) = 4 * n + 1
       /\ \A k \in 1..n :
            /\ metrics[4 * k - 3].type = "location"
            /\ metrics[4 * k - 2].type = "fuel"
            /\ metrics[4 * k - 1].type = "engine"
            /\ metrics[4 * k].type = "driver"
            /\ \A j \in (4 * k - 3)..(4 * k) : metrics[j].vehicleId = fleet[order[k]].id
       /\ metrics[4 * n + 1].type = "fleet"
       /\ metrics[4 * n + 1].vehicleId = "FLEET"
       /\ \A j \in 1..(4 * n) : metrics[j].type # "fleet"
       /\ lastOp = "updateTextContent" => currentMetrics = Len(metrics)

\* the content refresh read the 49 metrics of the fleet after it had ticked
C20_Witness ==
    /\ lastOp = "updateTextContent"
    /\ ticks > 0
    /\ currentMetrics = 49
    /\ Len(getDisplayMetrics(fleet, vehicles)) = 49

\* C21 (as claimed): every metric of the list, the location metrics included,
\* has a status that is one of normal, warning, critical.
C21_SeverityEnum ==
    \A k \in 1..Len(metricList) :
        metricList[k].status \in {"normal", "warning", "critical"}

\* fuel levels, in percent of capacity, on both sides of the two thresholds
FuelPercents == {0, 19, 20, 21, 39, 40, 41, 100}

\* C22: the fuel metric is critical below 20% of capacity, warning from 20% to
\* below 40%, normal otherwise; the engine metric is warning exactly above
\* 100 degrees; the driver metric is warning exactly below a score of 70; the
\* fleet metric is warning exactly when fewer than 90% of the vehicles are connected.
C22_SeverityThresholds ==
    LET metrics == getDisplayMetrics(fleet, vehicles)
        order   == PopulationOrder(vehicles)
        n       == Len(order)
        fuelStatus(level, capacity) ==
            IF level < 200000 * capacity THEN "critical"
            ELSE IF level < 400000 * capacity THEN "warning"
            ELSE "normal"
    IN /\ \A k \in 1..n :
            LET vehicle == fleet[order[k]]
            IN /\ metrics[4 * k - 2].status = fuelStatus(vehicle.level, vehicle.capacity)
               /\ metrics[4 * k - 1].status = "warning" <=> vehicle.temperature > 1000
               /\ metrics[4 * k - 1].status \in {"warning", "normal"}
               /\ metrics[4 * k].status = "warning" <=> vehicle.score < 7000
               /\ metrics[4 * k].status \in {"warning", "normal"}
               /\ \A pct \in FuelPercents, below \in {0, 1} :
                    LET level == Max(0, pct * vehicle.capacity * 10000 - below)
                    IN vehicleMetrics([vehicle EXCEPT !.level = level])[2].status
                         = fuelStatus(level, vehicle.capacity)
       /\ metrics[4 * n + 1].status = "warning" <=>
            10 * Cardinality({v \in vehicles : fleet[v].connected}) < 9 * n
       /\ metrics[4 * n + 1].status \in {"warning", "normal"}

\* after two ticks the engine of VH-001 is above 100 degrees and a second
\* vehicle has lost its connection: engine, fleet, fuel and driver warnings at once
C22_Witness ==
    /\ lastOp = "updateVehicleData"
    /\ ticks = 2
    /\ LET metrics == getDisplayMetrics(fleet, vehicles)
       IN /\ metrics[3].status = "warning"
          /\ metrics[49].status = "warning"
          /\ \E k \in 1..12 : metrics[4 * k - 2].status = "warning"
          /\ \E k \in 1..12 : metrics[4 * k].status = "warning"
          /\ \E k \in 1..12 : metrics[4 * k].status = "normal"

C24_CullingKeepsMembership ==
    [][/\ lastOp' \in {"update", "idleCallback"} => UNCHANGED <<poolVars, content>>
       /\ (lastOp' = "update" /\ lastArg' # "") =>
             \A i \in Range(activeElements) :
                 (ProjectedZ(lastArg', i) > 100 \/ ProjectedZ(lastArg', i) < -100) =>
                     /\ ~isVisible'[i]
                     /\ display'[i] = "none"
                     /\ isActive'[i]
                     /\ i \in Range(activeElements')
                     /\ content'[i] = content[i]]_vars

\* a frame culled an active member behind the camera (z = -1.5), which keeps
\* its content and its place, while another member is drawn
C24_Witness ==
    /\ lastOp = "update"
    /\ lastArg = "mixed"
    /\ \E i \in Range(activeElements) :
          /\ ProjectedZ("mixed", i) < -100
          /\ isActive[i] /\ ~isVisible[i] /\ display[i] = "none" /\ content[i] # 0
    /\ \E j \in Range(activeElements) : isVisible[j] /\ display[j] = "block"

C26_AlphaClamped ==
    /\ \A i \in Members : opacity[i] >= 0 /\ opacity[i] <= 9000000
    /\ (lastOp = "update" /\ lastArg # "") =>
          \A i \in Range(activeElements) :
              LET z == ProjectedZ(lastArg, i)
              IN (z >= -100 /\ z <= 100 /\ isVisible[i]) =>
                    opacity[i] = lifeAlpha(life[i]) * (100 - Max(0, Min(100, z))) * 9

\* C27 (as claimed): life stays within [0, 1], and the first frame's visibility
\* computation sees the initial life advanced by one increment, on the inline
\* path and on the idle-callback path alike.
C27_SamePhaseOnBothPaths ==
    /\ \A i \in Members : life[i] >= 0 /\ life[i] <= LifeUnits
    /\ (lastOp = "update" /\ lastArg # "" /\ elapsed = 1) =>
          \A i \in Range(activeElements) :
              LET seen == IF initialLife(0, i) + 1 >= LifeUnits THEN 0
                          ELSE initialLife(0, i) + 1
              IN isVisible[i] => opacity[i] = finalAlpha(seen, ProjectedZ(lastArg, i))

C29_DestroyStopsEverything ==
    [][/\ lastOp' = "destroy" =>
             /\ ~isRunning'
             /\ activeElements' = <<>>
             /\ \A i \in Members : ~attached'[i]
       /\ (lastOp = "destroy" \/ ~isRunning) =>
             /\ lastOp' # "updateVehicleData"
             /\ fleet' = fleet
             /\ ticks' = ticks
             /\ ~isRunning']_vars

\* a shown overlay over a fleet that has ticked was destroyed, and the text
\* timer has fired since: the clock is stopped, nothing is active, the members
\* that were shown are detached
C29_Witness ==
    /\ lastOp = "updateTextContent"
    /\ ~isRunning
    /\ ticks >= 1
    /\ activeElements = <<>>
    /\ \E i \in Members : isActive[i] /\ content[i] # 0 /\ ~attached[i]
    /\ \A i \in Members : ~attached[i]

\* C30: a theme notification whose payload is null or has no '3d' group
\* leaves the colors in force and the colors applied to the scene as they
\* were, applies nothing, and lets no exception out to the notifier.
C30_InvalidThemeRetained ==
    [][(lastOp' = "handleThemeChange" /\ lastArg' \in {"null", "no3d"}) =>
          /\ colors' = colors
          /\ appliedColors' = appliedColors
          /\ applies' = applies
          /\ ~thrown']_vars

\* a valid theme was applied and an invalid payload arrived afterwards: the
\* applied theme is still the one in force
C30_Witness ==
    /\ lastOp = "handleThemeChange"
    /\ lastArg = "no3d"
    /\ colors = "dark"
    /\ appliedColors = "dark"
    /\ applies = 1
    /\ ~thrown

\* C31 (as claimed): after a valid theme change has been applied, every pool
\* member's element, active or pooled, is drawn in the colors of the new
\* theme, however many members are active.
C31_ThemeReachesEveryMember ==
    (lastOp = "handleThemeChange" /\ lastRet = 1) =>
        \A i \in Members : EffectiveColor(i) = colors

\* C32: every 'error' event appends exactly one record of type 'javascript'
\* with the event's message, every 'unhandledrejection' event exactly one
\* record of type 'promise' with the reason's message (or the stock text when
\* there is none); clearErrors empties the list.
C32_OneRecordPerEvent ==
    [][/\ lastOp' = "error" =>
             errors' = Append(errors, [type |-> "javascript", message |-> lastArg'])
       /\ lastOp' = "unhandledrejection" =>
             errors' = Append(errors,
                 [type |-> "promise",
                  message |-> IF lastArg' # "" THEN lastArg'
                              ELSE "Unhandled Promise Rejection"])
       /\ lastOp' = "clearErrors" => errors' = <<>>]_vars

\* an error event and then a rejection without a reason were recorded, in order
C32_Witness ==
    /\ lastOp = "unhandledrejection"
    /\ Len(errors) = 2
    /\ errors[1] = [type |-> "javascript", message |-> "Test error"]
    /\ errors[2] = [type |-> "promise", message |-> "Unhandled Promise Rejection"]

\* C33 (as claimed): a tick sets the engine rpm of every vehicle that is idle
\* during it to 0.
C33_IdleRpmZero ==
    [][lastOp' = "updateVehicleData" =>
          \A v \in vehicles : fleet[v].state = "idle" => fleet'[v].rpm = 0]_vars

\* C34 (as claimed): a tick leaves the temperature of an idle vehicle no higher
\* than it was, lowers it by at most 0.5 and not below 85; after any tick
\* every temperature is within [80, 105].
C34_IdleCoolsTowards85 ==
    [][lastOp' = "updateVehicleData" =>
          \A v \in vehicles :
              /\ fleet[v].state = "idle" =>
                    /\ fleet'[v].temperature <= fleet[v].temperature
                    /\ fleet[v].temperature - fleet'[v].temperature <= 5
                    /\ fleet'[v].temperature >= 850
              /\ fleet'[v].temperature >= 800
              /\ fleet'[v].temperature <= 1050]_vars

\* C35: from every pool in which exactly the listed members are flagged
\* active, reconciliation terminates for every target and every metric count:
\* the release loop leaves min(active, target) members, the activation loop
\* then stops at min(target, metrics) or when no inactive member is left; no
\* reconciliation of the overlay ever hangs.
C35_ReconcileTerminates ==
    /\ ~hung
    /\ (\A i \in Range(activeElements) : isActive[i]) =>
          \A tc \in ReconcileTargets, m \in MetricCounts :
              LET r    == ReleaseExcess(PoolState, tc)
                  a    == ActivateNeeded(r, tc, m)
                  kept == Min(Len(activeElements), tc)
              IN /\ ~r.hung
                 /\ ~a.hung
                 /\ Len(r.active) = kept
                 /\ Len(a.active) =
                       IF kept < Min(tc, m)
                       THEN Min(Min(tc, m), kept + Len(inactiveElements))
                       ELSE kept

\* a reconciliation of the destroyed overlay wanted one member for the one
\* metric left, found the pool empty and stopped
C35_Witness ==
    /\ lastOp = "updateDisplayMetrics"
    /\ textElementPool = <<>>
    /\ inactiveElements = <<>>
    /\ activeElements = <<>>
    /\ currentMetrics = 1
    /\ direct = MaxDirect
    /\ ~hung

\* C36 (as claimed): once destroy() has emptied the pool, neither the 2 s
\* content refresh nor the 5 s governor check runs again.
C36_NoTimerAfterDestroy ==
    [][textElementPool = <<>> =>
          lastOp' \notin {"updateTextContent", "checkPerformance"}]_vars

\* C37: whatever start and stop calls are made, at most one simulation timer
\* is live, isRunning is true exactly when it is, and the handle is held
\* exactly then; a start while running and a stop while stopped change
\* nothing of the clock.
C37_OneTimer ==
    /\ [](/\ liveTimers <= 1
          /\ isRunning <=> liveTimers = 1
          /\ simulationInterval <=> liveTimers = 1)
    /\ [][/\ (lastOp' = "startDataSimulation" /\ isRunning) =>
                UNCHANGED <<isRunning, liveTimers, simulationInterval>>
          /\ (lastOp' = "stopDataSimulation" /\ ~isRunning) =>
                UNCHANGED <<isRunning, liveTimers, simulationInterval>>
          /\ (lastOp' = "startDataSimulation" /\ ~isRunning) =>
                isRunning' /\ liveTimers' = 1
          /\ (lastOp' = "stopDataSimulation" /\ isRunning) =>
                ~isRunning' /\ liveTimers' = 0]_vars

\* the clock has ticked as often as it may, and a start call then found it
\* running and set no timer
C37_Witness ==
    /\ lastOp = "startDataSimulation"
    /\ lastRet = 0
    /\ isRunning
    /\ liveTimers = 1
    /\ ticks = MaxTicks
    /\ Len(textElementPool) = poolSize

\* C38: a tick calls every registered listener exactly once and no other, also
\* the listeners registered after one that throws; the exceptions are caught,
\* the timer stays live and the registrations stay as they were.
C38_EveryListenerOnce ==
    [][lastOp' = "updateVehicleData" =>
          /\ \A l \in ListenerIds :
                notified'[l] = IF \E k \in 1..Len(listeners) : listeners[k] = l THEN 1 ELSE 0
          /\ caught' = Cardinality(Range(listeners) \cap {"thrower"})
          /\ listeners' = listeners
          /\ isRunning' /\ liveTimers' = 1
          /\ vehicles' = vehicles
          /\ DOMAIN fleet' = DOMAIN fleet]_vars

\* a tick over three listeners, the throwing one registered first: all three
\* were called once and one exception was caught
C38_Witness ==
    /\ lastOp = "updateVehicleData"
    /\ listeners = <<"thrower", "first", "last">>
    /\ \A l \in ListenerIds : notified[l] = 1
    /\ caught = 1
    /\ isRunning

\* C39 (as claimed): with the governor and the performance monitor both
\* writing settings.textCount, it stays an integer within [8, 24], and after a
\* reconciliation the number of active members is at most that target.
C39_TargetIntegralAndRespected ==
    /\ textCountFrac = 0
    /\ textCount >= 8
    /\ textCount <= 24
    /\ lastOp = "updateDisplayMetrics" =>
          activeCount * FractionDen <= textCount * FractionDen + textCountFrac

\* C40: for every name at most one import is pending or has succeeded; a call
\* for a name that is loaded or loading starts no import; a loaded name has no
\* entry in loadingPromises; when the call that started a failed import
\* resumes, the name is in neither map, and a call for a name in neither map
\* starts an import.
C40_OneImportPerName ==
    /\ [](\A name \in ModuleNames :
            /\ Cardinality({p \in 1..Len(promises) :
                               /\ promises[p].name = name
                               /\ promises[p].state \in {"pending", "resolved"}}) <= 1
            /\ name \in loadedModules => loadingPromises[name] = 0
            /\ loadingPromises[name] # 0 => promises[loadingPromises[name]].name = name)
    /\ [][/\ lastOp' = "loadModule" =>
                IF lastArg' \in loadedModules \/ loadingPromises[lastArg'] # 0
                THEN promises' = promises
                ELSE /\ Len(promises') = Len(promises) + 1
                     /\ promises'[Len(promises')] = [name |-> lastArg', state |-> "pending"]
          /\ (/\ lastOp' = "resumeLoad"
              /\ loads[lastArg'].role = "owner"
              /\ promises[loads[lastArg'].promise].state = "rejected") =>
                /\ loads[lastArg'].name \notin loadedModules'
                /\ loadingPromises'[loads[lastArg'].name] = 0]_vars

\* an import failed while a second call was waiting on it, both calls threw,
\* and a third call retried the import and got the module
C40_Witness ==
    /\ lastOp = "resumeLoad"
    /\ promises = <<[name |-> "menu", state |-> "rejected"],
                    [name |-> "menu", state |-> "resolved"]>>
    /\ Len(loads) = 3
    /\ loads[1].role = "owner" /\ loads[1].result = "error"
    /\ loads[2].role = "waiter" /\ loads[2].result = "error"
    /\ loads[3].role = "owner" /\ loads[3].result = "instance"
    /\ loadedModules = {"menu"}
    /\ loadingPromises["menu"] = 0

====
